---- MODULE Spec2Model ----
(***************************************************************************)
(* Trust & verification scoring engine of Infosphere.                      *)
(*                                                                         *)
(*   AdvancedNewsVerifier   backend/services/advanced_verification_service *)
(*   NetworkAnalyzer        backend/services/network_analysis_service      *)
(*   TemporalFactChecker    backend/services/temporal_verification_service *)
(*   OfflineATIEService     backend/services/offline_atie_service          *)
(*   ATIEService            backend/services/atie_service                  *)
(*                                                                         *)
(* Scores are kept as exact decimals: a check score is an integer number   *)
(* of hundredths (70 stands for 0.70), a weight likewise, and an overall   *)
(* score is an integer number of ten-thousandths (8250 stands for 0.825).  *)
(* The Python code evaluates the same sums in binary floating point, which *)
(* differs from the exact decimal by at most a few units in the last       *)
(* place (Scenario A evaluates to 0.8249999999999998).                     *)
(***************************************************************************)
EXTENDS Integers, Sequences, FiniteSets, TLC

VARIABLES
    article,          \* the Article handed to verify_article
    env,              \* what the external lookups of this call answer
    now,              \* the last reading of datetime.now(), in days
    lastResult,       \* verification_results returned by the last verify_article
    flagged_news_db,  \* AdvancedNewsVerifier.flagged_news_db
    inserted,         \* history: every entry ever handed to the flagged store
    verifyCalls,      \* history: number of verify_article calls made
    graph_nodes,      \* NetworkAnalyzer.citation_graph: its nodes
    graph_edges,      \* NetworkAnalyzer.citation_graph: its edges with their url attribute
    trust_scores,     \* NetworkAnalyzer.trust_scores
    disk_network,     \* the content of data/citation_network.json
    citationCalls,    \* history: number of add_citation calls made
    lastTrust,        \* history: the source and the value of the last calculate_trust_score
    trustCalls,       \* history: number of calculate_trust_score calls made
    timeline_claims,  \* TemporalFactChecker.fact_timeline["claims"]
    timeline_sources, \* TemporalFactChecker.fact_timeline["sources"]
    disk_timeline,    \* the content of data/fact_timeline.json
    clockSetBack,     \* the wall clock was set back between two datetime.now() readings
    service,          \* which analysis service runs, and for ATIEService its cache backend
    cache,            \* OfflineATIEService.cache or ATIEService.memory_cache: key -> result
    redis,            \* the entries of the Redis server: key -> stored JSON text
    results,          \* the result objects created so far (their score and from_cache)
    prevReturn,       \* history: what the call before the last one returned
    lastReturn,       \* history: what the last call returned
    analyses,         \* history: number of analysis calls made
    cache_age,        \* the seconds elapsed since each cache entry was set
    raisedCalls,      \* history: the calls that left an exception to their caller
    handlers,         \* the request handlers the event loop has started: where each one is
    current,          \* the handler the event loop is running, or NoHandler
    score_sets,       \* two lists of five check scores handed to the aggregation
    aggregated        \* the overall_score and is_flagged computed from each of them

verifyVars == <<article, env, now, lastResult, flagged_news_db, inserted, verifyCalls>>

graphVars ==
    <<graph_nodes, graph_edges, trust_scores, disk_network, citationCalls, lastTrust, trustCalls>>

timelineVars == <<timeline_claims, timeline_sources, disk_timeline, clockSetBack>>

cacheVars == <<service, cache, redis, results, prevReturn, lastReturn, analyses, cache_age>>

callVars == <<raisedCalls, handlers, current>>

aggregateVars == <<score_sets, aggregated>>

vars == <<verifyVars, graphVars, timelineVars, cacheVars, callVars, aggregateVars>>

Null == "None"

(***************************************************************************)
(* Bounds of the model.                                                    *)
(***************************************************************************)
MaxVerifies == 1
MaxInserts == 150
MaxLowScores == 1
MaxCitations == 9
MaxDepth == 3
MaxClaims == 4
MaxAnalyses == 3
MaxTrustCalls == 3
MaxTrustCitations == 2
MaxRecent == 4
MaxDays == 2
MaxStorageCalls == 3
MaxScoreCitations == 1
MaxRequests == 3
MaxScoreTrustCalls == 2
MaxLimit == 5

T0 == 20

(***************************************************************************)
(* Articles.  A field is missing, None (Null) or a value; a text is        *)
(* represented by a sample string together with the tables below, which    *)
(* answer the substring and parsing questions the code asks of it.         *)
(***************************************************************************)
Missing == "<missing>"

\* dict.get(key, default): the default only replaces a missing key, not None
Get(v, default) == IF v = Missing THEN default ELSE v

Titles == {"Budget session opens", Missing, Null}

Descriptions == {"The minister announced a scheme", "RBI holds the repo rate",
                 "New vaccine approved", Missing, Null}

Sources == {"PTI", "India Today", "OpIndia", Missing, Null}

Urls == {"https://example.org/a", "http://example.org/a", Missing, Null}

NotAString == "<int>"

ImageUrls == {Missing, "https://images.pexels.com/p.jpg", "https://example.org/i.png",
              "https://cdn.other.net/i.png", NotAString}

\* published_at: missing, an ISO timestamp (a day number) or an unparsable value
NoDate == [kind |-> "none", at |-> 0]
BadDate == [kind |-> "garbage", at |-> 0]
IsoDate(d) == [kind |-> "iso", at |-> d]
PublishedAts == {NoDate, BadDate, IsoDate(T0 + 5), IsoDate(T0 - 9), IsoDate(T0 - 1)}

Articles ==
    [id : {"a1"}, title : Titles, description : Descriptions, source : Sources,
     url : Urls, image_url : ImageUrls, published_at : PublishedAts]

\* answers of the outside world: the official-authority page that is consulted
\* and the two fact-check sites that are searched
LookupAnswers == {"match", "nomatch", "failed"}
SiteAnswers == {"debunk", "verified", "neutral", "failed"}
Envs == [lookup : LookupAnswers, site1 : SiteAnswers, site2 : {"debunk", "neutral"}]

\* str.lower()
Lower(s) ==
    CASE s = "PTI" -> "pti"
      [] s = "India Today" -> "india today"
      [] s = "OpIndia" -> "opindia"
      [] s = "The minister announced a scheme" -> "the minister announced a scheme"
      [] s = "RBI holds the repo rate" -> "rbi holds the repo rate"
      [] s = "New vaccine approved" -> "new vaccine approved"
      [] s = "Budget session opens" -> "budget session opens"
      [] OTHER -> s

\* the words and names that occur as substrings of a lower-cased text
WordsIn(text) ==
    CASE text = "pti" -> {"pti"}
      [] text = "india today" -> {"india today"}
      [] text = "opindia" -> {"opindia"}
      [] text = "the minister announced a scheme" -> {"minister", "scheme", "announced"}
      [] text = "rbi holds the repo rate" -> {"rbi", "repo rate"}
      [] text = "new vaccine approved" -> {"vaccine"}
      [] text = "https://images.pexels.com/p.jpg" -> {"pexels"}
      [] text = "images.pexels.com" -> {"pexels"}
      [] OTHER -> {}

\* name.replace(' ', '')
NoSpace(name) ==
    CASE name = "india today" -> "indiatoday"
      [] name = "the hindu" -> "thehindu"
      [] name = "indian express" -> "indianexpress"
      [] name = "associated press" -> "associatedpress"
      [] name = "times of india" -> "timesofindia"
      [] name = "hindustan times" -> "hindustantimes"
      [] name = "the wire" -> "thewire"
      [] name = "business standard" -> "businessstandard"
      [] name = "economic times" -> "economictimes"
      [] OTHER -> name

\* urlparse(u).netloc
Netloc(u) ==
    CASE u = "https://example.org/a" -> "example.org"
      [] u = "http://example.org/a" -> "example.org"
      [] u = "https://example.org/i.png" -> "example.org"
      [] u = "https://cdn.other.net/i.png" -> "cdn.other.net"
      [] u = "https://images.pexels.com/p.jpg" -> "images.pexels.com"
      [] OTHER -> ""

\* a in b for two netlocs: the empty string is in every string
NetlocIn(a, b) == a = "" \/ a = b

\* url.startswith('https://')
StartsWithHttps(u) == u \in {"https://example.org/a", "https://example.org/i.png",
                             "https://cdn.other.net/i.png", "https://images.pexels.com/p.jpg"}

\* an exception that leaves a collector coroutine
Raised(msg) == [raised |-> TRUE, msg |-> msg]
IsException(r) == "raised" \in DOMAIN r

CheckResult(score, status, details) == [score |-> score, status |-> status, details |-> details]

(***************************************************************************)
(* The five collectors.  Each returns a CheckResult or raises.             *)
(***************************************************************************)
GovWords == {"government", "minister", "ministry", "scheme", "policy", "announced"}
RbiWords == {"rbi", "reserve bank", "monetary policy", "interest rate", "repo rate"}
WhoWords == {"health", "disease", "vaccine", "pandemic", "who", "medical"}
Agencies == {"pti", "ani", "reuters", "ap", "the hindu", "indian express"}

\* _check_pib, _check_rbi, _check_who: a failed request is caught and reported
\* as not found
check_authority(answer) == [found |-> answer = "match"]

check_official_sources(a, e) ==
    IF a.title = Null THEN Raised("'NoneType' object has no attribute 'lower'")
    ELSE IF a.description = Null THEN Raised("'NoneType' object has no attribute 'lower'")
    ELSE
      LET content == Lower(Get(a.description, ""))
          words == WordsIn(content)
      IN IF words \cap GovWords # {} /\ check_authority(e.lookup).found
           THEN CheckResult(95, "verified", "Verified against official PIB release")
         ELSE IF words \cap RbiWords # {} /\ check_authority(e.lookup).found
           THEN CheckResult(95, "verified", "Verified against RBI official release")
         ELSE IF words \cap WhoWords # {} /\ check_authority(e.lookup).found
           THEN CheckResult(92, "verified", "Verified against WHO official statements")
         ELSE IF a.source = Null
           THEN Raised("'NoneType' object has no attribute 'lower'")
         ELSE IF Lower(Get(a.source, "")) \in Agencies
           THEN CheckResult(80, "trusted_source",
                            "Reputable news agency, no contradicting information found")
         ELSE CheckResult(70, "not_found", "No official source verification available")

StockSites == {"shutterstock", "gettyimages", "istockphoto", "pexels", "unsplash"}

verify_image_authenticity(a) ==
    IF a.image_url \in {Missing, Null, ""}
      THEN CheckResult(75, "no_image", "No image to verify")
    ELSE IF a.image_url = NotAString
      \* urlparse raises inside the try block
      THEN CheckResult(60, "error", "Image verification error")
    ELSE IF WordsIn(Netloc(a.image_url)) \cap StockSites # {}
      THEN CheckResult(50, "stock_photo", "Image appears to be from stock photo website")
    ELSE IF a.url = Null
      \* urlparse(None).netloc is bytes: the substring test raises inside the try
      THEN CheckResult(60, "error", "Image verification error")
    ELSE
      LET article_domain == Netloc(Get(a.url, ""))
          netloc == Netloc(a.image_url)
      IN IF NetlocIn(netloc, article_domain) \/ NetlocIn(article_domain, netloc)
           THEN CheckResult(85, "authentic", "Image hosted on same domain as article")
           ELSE CheckResult(70, "external_source", "Image from external source")

fact_check_sites == <<"https://www.altnews.in", "https://www.boomlive.in",
                      "https://www.factchecker.in", "https://factly.in",
                      "https://newsmobile.in">>

RECURSIVE fact_site_loop(_, _, _)
\* the loop over fact_check_sites[:2]; a site that fails is skipped
fact_site_loop(a, answers, i) ==
    IF i > 2 THEN CheckResult(70, "not_checked", "No fact-check found")
    ELSE IF a.title = Null \/ answers[i] = "failed"
      THEN fact_site_loop(a, answers, i + 1)
    ELSE IF answers[i] = "debunk"
      THEN CheckResult(30, "debunked", fact_check_sites[i])
    ELSE IF answers[i] = "verified"
      THEN CheckResult(90, "verified", fact_check_sites[i])
    ELSE fact_site_loop(a, answers, i + 1)

check_fact_checkers(a, e) == fact_site_loop(a, <<e.site1, e.site2>>, 1)

trusted_tier1 == {"pti", "ani", "reuters", "associated press", "bbc", "the hindu",
                  "indian express", "times of india", "hindustan times", "ndtv",
                  "the wire", "scroll.in", "thequint"}
trusted_tier2 == {"india today", "news18", "firstpost", "livemint",
                  "business standard", "economic times", "moneycontrol"}
unreliable == {"opindia", "postcard", "swarajya", "tfipost"}

analyze_source_credibility(a) ==
    IF a.source = Null \/ a.url = Null
      THEN Raised("'NoneType' object has no attribute 'lower'")
    ELSE
      LET source == Lower(Get(a.source, ""))
          url == Lower(Get(a.url, ""))
          hit(names) == \E t \in names : t \in WordsIn(source) \/ NoSpace(t) \in WordsIn(url)
      IN IF hit(trusted_tier1)
           THEN CheckResult(92, "highly_trusted", "Source is a highly credible news organization")
         ELSE IF hit(trusted_tier2)
           THEN CheckResult(80, "trusted", "Source is a reliable news organization")
         ELSE IF \E t \in unreliable : t \in WordsIn(source) \/ t \in WordsIn(url)
           THEN CheckResult(35, "unreliable", "Source has credibility concerns")
         ELSE IF StartsWithHttps(url)
           THEN CheckResult(70, "moderate", "Source uses secure connection (HTTPS)")
           ELSE CheckResult(50, "questionable", "Source does not use secure connection")

verify_temporal_consistency(a, clock) ==
    IF a.published_at.kind = "none"
      THEN CheckResult(75, "consistent", "Timestamp appears reasonable")
    ELSE IF a.published_at.kind = "garbage"
      \* fromisoformat raises inside the try block: only the score is replaced
      THEN CheckResult(70, "consistent", "Timestamp appears reasonable")
    ELSE
      LET pub_date == a.published_at.at
          age_days == clock - pub_date
      IN IF pub_date > clock
           THEN CheckResult(20, "future_dated",
                            "Article dated in the future - major credibility issue")
         ELSE IF age_days > 7 THEN CheckResult(60, "old_content", "Article is days old")
         ELSE IF age_days < 0
           THEN CheckResult(30, "timing_issue", "Article timestamp has inconsistencies")
         ELSE CheckResult(85, "recent", "Recent article")

(***************************************************************************)
(* verify_article: gather, aggregate, flag.                                *)
(***************************************************************************)
check_names == <<"official_source_match", "image_authenticity", "fact_checker_status",
                 "source_credibility", "temporal_consistency">>

\* asyncio.gather(..., return_exceptions=True), in the order of the call
gather(a, e, clock) ==
    <<check_official_sources(a, e), verify_image_authenticity(a), check_fact_checkers(a, e),
      analyze_source_credibility(a), verify_temporal_consistency(a, clock)>>

\* a failed collector counted as score 0 instead of the neutral 0.5
process_result_zero(r) == IF IsException(r) THEN CheckResult(0, "error", r.msg) ELSE r

\* a gathered outcome kept as it is, without the isinstance test
process_result_unhandled(r) == r

\* the entry recorded for one gathered outcome
process_result(r) == IF IsException(r) THEN CheckResult(50, "error", r.msg) ELSE r

\* the weights listed in the order official, fact-checker, credibility, temporal,
\* image, although the checks are gathered in another order
weights_misordered == <<35, 25, 15, 10, 15>>

\* weights that still sum to 1, the last of them below zero
weights_signed == <<35, 15, 35, 25, 0 - 10>>

weights == <<35, 15, 25, 15, 10>>

RECURSIVE weighted_sum(_, _, _)
weighted_sum(scores, ws, i) ==
    IF i > Len(scores) THEN 0 ELSE scores[i] * ws[i] + weighted_sum(scores, ws, i + 1)

\* the threshold set ten points too high
FlagThreshold_high == 6500 + 1000

FlagThreshold == 6500
\* a floor ten points lower
CheckFloor_low == 60 - 10
\* check_data.get('score', 1.0) < 0.60
CheckFloor == 60

Reason(text, details) == [text |-> text, details |-> details]
GenericReason == Reason("Overall verification score below threshold (< 65%)", "")

\* the reasons one check contributes
reasons_of(name, c) ==
    IF c.score < CheckFloor
      THEN (IF name = "official_source_match" /\ c.status # "verified"
              THEN <<Reason("Could not verify against official sources", "")>> ELSE <<>>)
        \o (IF name = "image_authenticity" /\ c.status = "stock_photo"
              THEN <<Reason("Using stock photography instead of original images", "")>>
              ELSE <<>>)
        \o (IF name = "fact_checker_status" /\ c.status = "debunked"
              THEN <<Reason("Fact-checkers have flagged this as false/misleading", c.details)>>
              ELSE <<>>)
        \o (IF name = "source_credibility" /\ c.status = "unreliable"
              THEN <<Reason("Source has credibility concerns", c.details)>> ELSE <<>>)
        \o (IF name = "temporal_consistency" /\ c.status \in {"future_dated", "timing_issue"}
              THEN <<Reason("Suspicious timestamp", c.details)>> ELSE <<>>)
      ELSE <<>>

RECURSIVE reasons_loop(_, _)
reasons_loop(checks, i) ==
    IF i > Len(check_names) THEN <<>>
    ELSE reasons_of(check_names[i], checks[check_names[i]]) \o reasons_loop(checks, i + 1)

extract_flag_reasons(checks) ==
    LET reasons == reasons_loop(checks, 1)
    IN IF reasons = <<>> THEN <<GenericReason>> ELSE reasons

\* the list gather returns with the results in the order the collectors finished
join_in_completion_order(done, order) == [i \in 1..Len(order) |-> done[order[i]]]

\* asyncio.gather returns the results in the order of its arguments, whatever
\* the order in which the collectors finished
join(done, order) == [i \in 1..Len(order) |-> done[i]]

\* the verification_results dict that verify_article builds from the gathered
\* outcomes; an outcome that is kept as it was gathered although it is no dict
\* makes check_result.get raise, and the exception leaves verify_article
verify_outcomes(a, outcomes, clock) ==
    LET checks == [n \in {check_names[i] : i \in 1..5} |->
                     process_result(outcomes[CHOOSE i \in 1..5 : check_names[i] = n])]
        scores == [i \in 1..5 |-> checks[check_names[i]].score]
        overall == weighted_sum(scores, weights, 1)
        flagged == overall < FlagThreshold
    IN IF \E n \in DOMAIN checks : IsException(checks[n])
         THEN Raised("'AttributeError' object has no attribute 'get'")
         ELSE
       [article_id |-> Get(a.id, Null), title |-> Get(a.title, Null), url |-> Get(a.url, Null),
        timestamp |-> clock, checks |-> checks, overall_score |-> overall,
        is_flagged |-> flagged,
        flag_reasons |-> IF flagged THEN extract_flag_reasons(checks) ELSE <<>>]

\* the verification_results dict that verify_article returns
verify_result(a, e, clock) == verify_outcomes(a, gather(a, e, clock), clock)

MaxFlagged == 100

flagged_entry(vr) ==
    [id |-> vr.article_id, title |-> vr.title, url |-> vr.url, flagged_at |-> vr.timestamp,
     verification_score |-> vr.overall_score, flag_reasons |-> vr.flag_reasons,
     checks_summary |-> [n \in DOMAIN vr.checks |->
                           [score |-> vr.checks[n].score, status |-> vr.checks[n].status]]]

\* the slice keeps the first 100 entries instead of the last 100
add_to_flagged_db_head(db, vr) ==
    LET appended == Append(db, flagged_entry(vr))
    IN IF Len(appended) > MaxFlagged THEN SubSeq(appended, 1, MaxFlagged) ELSE appended

\* the flagged store after _add_to_flagged_db(vr)
add_to_flagged_db(db, vr) ==
    LET appended == Append(db, flagged_entry(vr))
    IN IF Len(appended) > MaxFlagged
         THEN SubSeq(appended, Len(appended) - MaxFlagged + 1, Len(appended))
         ELSE appended

NoResult == [none |-> TRUE]

TypeOK ==
    /\ article \in Articles
    /\ env \in Envs
    /\ now \in Nat

\* await advanced_verifier.verify_article(article)
VerifyArticle ==
    /\ verifyCalls < MaxVerifies
    /\ verifyCalls' = verifyCalls + 1
    /\ now' = now + 1
    /\ \E vr \in {verify_result(article, env, now')} :
       \E flagged \in {~IsException(vr) /\ vr.is_flagged} :
         /\ lastResult' = vr
         /\ flagged_news_db' = IF flagged THEN add_to_flagged_db(flagged_news_db, vr)
                               ELSE flagged_news_db
         /\ inserted' = IF flagged THEN Append(inserted, flagged_entry(vr))
                        ELSE inserted
    /\ UNCHANGED <<article, env>>
    /\ UNCHANGED graphVars
    /\ UNCHANGED timelineVars
    /\ UNCHANGED cacheVars
    /\ UNCHANGED callVars
    /\ UNCHANGED aggregateVars

\* the article and the answers used where a specification does not vary them
PlainArticle ==
    [id |-> "a1", title |-> "Budget session opens", description |-> Missing,
     source |-> Missing, url |-> "https://example.org/a", image_url |-> Missing,
     published_at |-> NoDate]
QuietEnv == [lookup |-> "nomatch", site1 |-> "neutral", site2 |-> "neutral"]

\* AdvancedNewsVerifier.__init__
InitVerifier ==
    /\ now = T0
    /\ lastResult = NoResult
    /\ flagged_news_db = <<>>
    /\ inserted = <<>>
    /\ verifyCalls = 0

(***************************************************************************)
(* NetworkAnalyzer: the citation graph.  citation_graph is a networkx       *)
(* DiGraph: a set of nodes and at most one edge per ordered pair of nodes,  *)
(* each edge with one url attribute.                                        *)
(***************************************************************************)
GraphSources == {"A", "B", "C", "D", "E", "F"}

\* the add_citation calls that are issued: a triangle A, B, C citing each other in
\* both directions, a one-way ring D, E, F, a pair D, E, a bridge from the triangle
\* to the ring, a self-citation, and a second article for the edge A -> B
Citation(citing, cited, url) == [citing |-> citing, cited |-> cited, url |-> url]
CitationPool ==
    {Citation("A", "B", "u1"), Citation("B", "A", "u1"), Citation("B", "C", "u1"),
     Citation("C", "B", "u1"), Citation("A", "C", "u1"), Citation("C", "A", "u1"),
     Citation("D", "E", "u1"), Citation("E", "F", "u1"), Citation("F", "D", "u1"),
     Citation("E", "D", "u1"), Citation("C", "D", "u1"), Citation("A", "A", "u1"),
     Citation("A", "B", "u2")}

\* A trust score of a source is an integer number of units of 1/TrustScale.  Every
\* calculate_trust_score divides a sum of stored scores by the number of citing
\* sources (at most 4 here) and multiplies by 0.3, so that a unit of
\* 1/(4 * 40^n) holds the result of n nested calls on quarters exactly.
TrustScale == 4 * 40^MaxTrustCalls
\* 0.5
NeutralTrust == TrustScale \div 2

\* DiGraph.add_edge(citing, cited, url=url): an edge that exists keeps its place and
\* gets the new attribute
add_edge(edges, citing, cited, url) ==
    {e \in edges : ~(e.citing = citing /\ e.cited = cited)} \cup {Citation(citing, cited, url)}

HasEdge(edges, u, v) == \E e \in edges : e.citing = u /\ e.cited = v

\* DiGraph.out_edges(node) and DiGraph.in_edges(node), as the nodes at the other end
Successors(edges, node) == {e.cited : e \in {x \in edges : x.citing = node}}
Predecessors(edges, node) == {e.citing : e \in {x \in edges : x.cited = node}}

\* nx.node_link_data(graph) together with trust_scores, as _save_network writes them
save_network(nodes, edges, scores) == [nodes |-> nodes, edges |-> edges, trust_scores |-> scores]

NoFile == [nofile |-> TRUE]

\* the simple paths from start that stay above start in the node order: the search
\* that enumerates every elementary circuit once, rooted at its least node
SourceOrder == <<"A", "B", "C", "D", "E", "F">>
Rank(n) == CHOOSE i \in 1..Len(SourceOrder) : SourceOrder[i] = n

RECURSIVE circuits_from(_, _, _)
circuits_from(edges, path, start) ==
    LET last == path[Len(path)]
        closed == IF HasEdge(edges, last, start) THEN {path} ELSE {}
        nexts == {n \in Successors(edges, last) :
                    Rank(n) > Rank(start) /\ \A i \in 1..Len(path) : path[i] # n}
    IN closed \cup UNION {circuits_from(edges, Append(path, n), start) : n \in nexts}

\* nx.simple_cycles(graph): every elementary circuit, self-loops included
simple_cycles(nodes, edges) == UNION {circuits_from(edges, <<n>>, n) : n \in nodes}

InCycle(cycle, source) == \E i \in 1..Len(cycle) : cycle[i] = source

NotCircular == [circular |-> FALSE, cycle |-> <<>>]

\* only the cycles that are listed starting at the source are kept
detect_circular_reporting_first(nodes, edges, source) ==
    IF source \notin nodes THEN NotCircular
    ELSE LET source_cycles == {c \in simple_cycles(nodes, edges) : c[1] = source}
         IN IF source_cycles # {}
              THEN [circular |-> TRUE, cycles |-> source_cycles,
                    cycle_count |-> Cardinality(source_cycles),
                    warning |-> "Source participates in circular reporting"]
              ELSE NotCircular

detect_circular_reporting(nodes, edges, source) ==
    IF source \notin nodes THEN NotCircular
    ELSE LET source_cycles == {c \in simple_cycles(nodes, edges) : InCycle(c, source)}
         IN IF source_cycles # {}
              THEN [circular |-> TRUE, cycles |-> source_cycles,
                    cycle_count |-> Cardinality(source_cycles),
                    warning |-> "Source participates in circular reporting"]
              ELSE NotCircular

RECURSIVE expand_out_only(_, _, _)
\* the expansion follows the out-edges only
expand_out_only(edges, found, depth) ==
    IF depth = 0 THEN found
    ELSE expand_out_only(edges, found \cup UNION {Successors(edges, n) : n \in found}, depth - 1)

RECURSIVE expand(_, _, _)
\* the loop "for _ in range(depth)": one more ring of in- and out-neighbours per turn
expand(edges, found, depth) ==
    IF depth = 0 THEN found
    ELSE expand(edges,
                found \cup UNION {Successors(edges, n) \cup Predecessors(edges, n) : n \in found},
                depth - 1)

get_citation_network(nodes, edges, scores, source, depth) ==
    IF source \notin nodes THEN [nodes |-> {}, edges |-> {}]
    ELSE LET sub == expand(edges, {source}, depth)
         IN [nodes |-> {[id |-> n,
                         trust_score |-> IF n \in DOMAIN scores THEN scores[n] ELSE NeutralTrust,
                         in_degree |-> Cardinality({e \in edges : e.cited = n}),
                         out_degree |-> Cardinality({e \in edges : e.citing = n})] : n \in sub},
             edges |-> {[source |-> e.citing, target |-> e.cited] :
                          e \in {x \in edges : x.citing \in sub /\ x.cited \in sub}}]

RECURSIVE reach_from(_, _)
\* the nodes reachable from a set of nodes along citation edges
reach_from(edges, found) ==
    LET more == found \cup UNION {Successors(edges, n) : n \in found}
    IN IF more = found THEN found ELSE reach_from(edges, more)

\* nx.strongly_connected_components(graph)
strongly_connected_components(nodes, edges) ==
    {{m \in nodes : m \in reach_from(edges, {n}) /\ n \in reach_from(edges, {m})} : n \in nodes}

\* only the single-node components are filtered out
identify_echo_chambers_pairs(nodes, edges) ==
    {comp \in strongly_connected_components(nodes, edges) : Cardinality(comp) > 1}

identify_echo_chambers(nodes, edges) ==
    {comp \in strongly_connected_components(nodes, edges) : Cardinality(comp) > 2}

NoTrust == [source |-> "", score |-> 0]

\* NetworkAnalyzer.__init__ with no data/citation_network.json on disk
InitGraph ==
    /\ graph_nodes = {}
    /\ graph_edges = {}
    /\ trust_scores = <<>>
    /\ disk_network = NoFile
    /\ citationCalls = 0
    /\ lastTrust = NoTrust
    /\ trustCalls = 0

\* network_analyzer.add_citation(citing, cited, url)
AddCitation ==
    /\ citationCalls < MaxCitations
    /\ \E c \in CitationPool :
         /\ graph_edges' = add_edge(graph_edges, c.citing, c.cited, c.url)
         /\ graph_nodes' = graph_nodes \cup {c.citing, c.cited}
         /\ trust_scores' = [n \in DOMAIN trust_scores \cup {c.citing, c.cited} |->
                               IF n \in DOMAIN trust_scores THEN trust_scores[n]
                               ELSE NeutralTrust]
         /\ citationCalls' = citationCalls + 1
    /\ disk_network' = save_network(graph_nodes', graph_edges', trust_scores')
    /\ UNCHANGED <<lastTrust, trustCalls>>
    /\ UNCHANGED verifyVars
    /\ UNCHANGED timelineVars
    /\ UNCHANGED cacheVars
    /\ UNCHANGED callVars
    /\ UNCHANGED aggregateVars

RECURSIVE SumTrust(_, _)
\* sum(self.trust_scores.get(s, 0.5) for s in citing_sources)
SumTrust(scores, sources) ==
    IF sources = {} THEN 0
    ELSE LET s == CHOOSE x \in sources : TRUE
         IN (IF s \in DOMAIN scores THEN scores[s] ELSE NeutralTrust)
            + SumTrust(scores, sources \ {s})

\* max(0.0, min(1.0, score))
\* the score stored as it was computed, without max(0.0, min(1.0, score))
ClampTrust_unclamped(score) == score

ClampTrust(score) == IF score < 0 THEN 0 ELSE IF score > TrustScale THEN TrustScale ELSE score

\* the penalty is taken once, however many cycles hold the source
circular_penalty_once(circular_info) ==
    IF circular_info.circular THEN 2 * (TrustScale \div 10) ELSE 0
\* 0.2 * len(circular_info.get("cycles", []))
circular_penalty(circular_info) ==
    IF circular_info.circular
      THEN 2 * (TrustScale \div 10) * Cardinality(circular_info.cycles)
      ELSE 0

\* the source counts among its own citers, whether it cites itself or not
calculate_trust_score_own(nodes, edges, scores, source) ==
    LET citing_sources == Predecessors(edges, source) \cup {source}
        citer_term ==
            (3 * (SumTrust(scores, citing_sources)
                    - Cardinality(citing_sources) * NeutralTrust))
              \div (10 * Cardinality(citing_sources))
        circular_info == detect_circular_reporting(nodes, edges, source)
        diversity == IF Cardinality(Successors(edges, source)) > 5
                       THEN TrustScale \div 10 ELSE 0
    IN ClampTrust(NeutralTrust + citer_term - circular_penalty(circular_info) + diversity)

\* NetworkAnalyzer.calculate_trust_score of a source of the graph
calculate_trust_score(nodes, edges, scores, source) ==
    LET citing_sources == Predecessors(edges, source)
        citer_term ==
            IF citing_sources # {}
              THEN (3 * (SumTrust(scores, citing_sources)
                           - Cardinality(citing_sources) * NeutralTrust))
                     \div (10 * Cardinality(citing_sources))
              ELSE 0
        circular_info == detect_circular_reporting(nodes, edges, source)
        diversity == IF Cardinality(Successors(edges, source)) > 5
                       THEN TrustScale \div 10 ELSE 0
    IN ClampTrust(NeutralTrust + citer_term - circular_penalty(circular_info) + diversity)

\* network_analyzer.calculate_trust_score(source)
CalculateTrustScore ==
    /\ trustCalls < MaxTrustCalls
    /\ trustCalls' = trustCalls + 1
    /\ \E source \in GraphSources :
         IF source \notin graph_nodes
           THEN /\ lastTrust' = [source |-> source, score |-> NeutralTrust]
                /\ UNCHANGED <<trust_scores, disk_network>>
           ELSE \E score \in {calculate_trust_score(graph_nodes, graph_edges,
                                                    trust_scores, source)} :
                  /\ trust_scores' = [n \in DOMAIN trust_scores \cup {source} |->
                                        IF n = source THEN score ELSE trust_scores[n]]
                  /\ disk_network' = save_network(graph_nodes, graph_edges, trust_scores')
                  /\ lastTrust' = [source |-> source, score |-> score]
    /\ UNCHANGED <<graph_nodes, graph_edges, citationCalls>>
    /\ UNCHANGED verifyVars
    /\ UNCHANGED timelineVars
    /\ UNCHANGED cacheVars
    /\ UNCHANGED callVars
    /\ UNCHANGED aggregateVars

(***************************************************************************)
(* TemporalFactChecker: the claim timeline.  A claim text is a sequence of *)
(* characters.                                                             *)
(***************************************************************************)
\* "Minister will approve the bill"
TextApprove ==
    <<"M", "i", "n", "i", "s", "t", "e", "r", " ", "w", "i", "l", "l", " ", "a", "p", "p", "r", "o", "v", "e", " ", "t", "h", "e", " ", "b", "i", "l", "l">>

\* "Minister will reject the bill"
TextReject ==
    <<"M", "i", "n", "i", "s", "t", "e", "r", " ", "w", "i", "l", "l", " ", "r", "e", "j", "e", "c", "t", " ", "t", "h", "e", " ", "b", "i", "l", "l">>

\* "Minister will reject bill"
TextRejectShort ==
    <<"M", "i", "n", "i", "s", "t", "e", "r", " ", "w", "i", "l", "l", " ", "r", "e", "j", "e", "c", "t", " ", "b", "i", "l", "l">>

\* "Minister will not approve the bill"
TextNotApprove ==
    <<"M", "i", "n", "i", "s", "t", "e", "r", " ", "w", "i", "l", "l", " ", "n", "o", "t", " ", "a", "p", "p", "r", "o", "v", "e", " ", "t", "h", "e", " ", "b", "i", "l", "l">>

\* " minister WILL approve the bill "
TextApproveVariant ==
    <<" ", "m", "i", "n", "i", "s", "t", "e", "r", " ", "W", "I", "L", "L", " ", "a", "p", "p", "r", "o", "v", "e", " ", "t", "h", "e", " ", "b", "i", "l", "l", " ">>

contradictory_pairs ==
    <<<<<<"w", "i", "l", "l">>,
        <<"w", "i", "l", "l", " ", "n", "o", "t">>>>,
      <<<<"c", "o", "n", "f", "i", "r", "m", "e", "d">>,
        <<"d", "e", "n", "i", "e", "d">>>>,
      <<<<"t", "r", "u", "e">>,
        <<"f", "a", "l", "s", "e">>>>,
      <<<<"i", "n", "c", "r", "e", "a", "s", "e">>,
        <<"d", "e", "c", "r", "e", "a", "s", "e">>>>,
      <<<<"a", "p", "p", "r", "o", "v", "e">>,
        <<"r", "e", "j", "e", "c", "t">>>>,
      <<<<"s", "u", "p", "p", "o", "r", "t">>,
        <<"o", "p", "p", "o", "s", "e">>>>>>

\* the letters that str.lower() changes, each with its lower-case form
LowerCase ==
    [A |-> "a", B |-> "b", C |-> "c", D |-> "d", E |-> "e", F |-> "f", G |-> "g", H |->
     "h", I |-> "i", J |-> "j", K |-> "k", L |-> "l", M |-> "m", N |-> "n", O |-> "o", P
     |-> "p", Q |-> "q", R |-> "r", S |-> "s", T |-> "t", U |-> "u", V |-> "v", W |->
     "w", X |-> "x", Y |-> "y", Z |-> "z"]

\* str.lower()
LowerChar(c) == IF c \in DOMAIN LowerCase THEN LowerCase[c] ELSE c
RECURSIVE lower_from(_, _)
lower_from(text, i) ==
    IF i > Len(text) THEN <<>> ELSE <<LowerChar(text[i])>> \o lower_from(text, i + 1)
LowerText(text) == lower_from(text, 1)

\* str.strip()
Strip(text) ==
    LET inked == {i \in 1..Len(text) : text[i] # " "}
    IN IF inked = {} THEN <<>>
       ELSE SubSeq(text, CHOOSE i \in inked : \A j \in inked : i <= j,
                         CHOOSE i \in inked : \A j \in inked : i >= j)

\* word in text
Contains(text, word) ==
    \E i \in 1..(Len(text) - Len(word) + 1) :
        text[i] = word[1] /\ SubSeq(text, i, i + Len(word) - 1) = word

\* set(text.split()): the maximal runs of characters other than white space
TokenEnd(text, i) ==
    CHOOSE j \in i..Len(text) :
        /\ \A k \in i..j : text[k] # " "
        /\ (j = Len(text) \/ text[j + 1] = " ")
Tokens(text) ==
    {SubSeq(text, i, TokenEnd(text, i)) :
        i \in {k \in 1..Len(text) : text[k] # " " /\ (k = 1 \/ text[k - 1] = " ")}}

\* hashlib.sha256(claim.lower().strip().encode()).hexdigest()[:16]: the digest is
\* represented by the text it is taken of
generate_claim_hash(claim) == Strip(LowerText(claim))

\* a threshold that one shared word fewer already meets
MinCommonWords_atleast == 3 - 1
\* len(common_words) > 3
MinCommonWords == 3

RECURSIVE detect_pairs(_, _, _)
\* the loop over contradictory_pairs
detect_pairs(claim1, claim2, i) ==
    IF i > Len(contradictory_pairs) THEN FALSE
    ELSE LET word1 == contradictory_pairs[i][1]
             word2 == contradictory_pairs[i][2]
         IN IF (Contains(claim1, word1) /\ Contains(claim2, word2))
               \/ (Contains(claim1, word2) /\ Contains(claim2, word1))
              THEN IF Cardinality(Tokens(claim1) \cap Tokens(claim2)) > MinCommonWords
                     THEN TRUE
                     ELSE detect_pairs(claim1, claim2, i + 1)
              ELSE detect_pairs(claim1, claim2, i + 1)

detect_contradiction(claim1, claim2) == detect_pairs(claim1, claim2, 1)

ContradictionRef(entry) ==
    [claim_id |-> entry.claim_id, original_claim |-> entry.claim_text,
     timestamp |-> entry.timestamp, article_url |-> entry.article_url]

RECURSIVE find_loop(_, _, _, _)
\* the loop over fact_timeline["claims"]
find_loop(claims, claim_lower, source, i) ==
    IF i > Len(claims) THEN <<>>
    ELSE (IF claims[i].source = source
             /\ detect_contradiction(claim_lower, LowerText(claims[i].claim_text))
            THEN <<ContradictionRef(claims[i])>> ELSE <<>>)
         \o find_loop(claims, claim_lower, source, i + 1)

find_contradictions(claims, sources, claim, source) ==
    IF source \in DOMAIN sources THEN find_loop(claims, LowerText(claim), source, 1) ELSE <<>>

\* sorted(entries, key=timestamp): a stable sort
RECURSIVE sorted_by_timestamp(_)
sorted_by_timestamp(entries) ==
    IF entries = <<>> THEN <<>>
    ELSE LET least == CHOOSE i \in 1..Len(entries) :
                        /\ \A j \in 1..Len(entries) : entries[i].timestamp <= entries[j].timestamp
                        /\ \A j \in 1..(i - 1) : entries[j].timestamp # entries[i].timestamp
             rest == SubSeq(entries, 1, least - 1) \o SubSeq(entries, least + 1, Len(entries))
         IN <<entries[least]>> \o sorted_by_timestamp(rest)

RECURSIVE timeline_loop(_, _, _)
\* the loop over fact_timeline["sources"][source]: next(...) takes the first claim
\* of the whole timeline that has the referenced claim_id
timeline_loop(claims, refs, i) ==
    IF i > Len(refs) THEN <<>>
    ELSE LET hits == {k \in 1..Len(claims) : claims[k].claim_id = refs[i].claim_id}
         IN (IF hits # {} THEN <<claims[CHOOSE k \in hits : \A m \in hits : k <= m]>>
             ELSE <<>>)
            \o timeline_loop(claims, refs, i + 1)

get_source_timeline(claims, sources, source) ==
    IF source \notin DOMAIN sources THEN <<>>
    ELSE sorted_by_timestamp(timeline_loop(claims, sources[source], 1))

\* TemporalFactChecker.check_narrative_shift(source, days) when the clock reads
\* `clock`; a day is one step of the clock
check_narrative_shift(claims, sources, source, days, clock) ==
    LET timeline == get_source_timeline(claims, sources, source)
        recent_claims == SelectSeq(timeline, LAMBDA c : c.timestamp > clock - days)
        carrying == SelectSeq(recent_claims, LAMBDA c : c.contradictions # <<>>)
        shifts == [i \in 1..Len(carrying) |->
                     [current_claim |-> carrying[i].claim_text,
                      timestamp |-> carrying[i].timestamp,
                      contradicts |-> carrying[i].contradictions]]
    IN IF timeline = <<>>
         THEN [shift_detected |-> FALSE, details |-> <<>>]
         ELSE [shift_detected |-> Len(shifts) > 0,
               details |-> shifts,
               total_claims |-> Len(recent_claims),
               contradictory_claims |-> Len(shifts)]

save_timeline(claims, sources) == [claims |-> claims, sources |-> sources]

\* the add_claim calls that are issued
ClaimCall(text, source, url) == [text |-> text, source |-> source, url |-> url]
ClaimPool ==
    {ClaimCall(TextApprove, "S", "u1"), ClaimCall(TextReject, "S", "u2"),
     ClaimCall(TextRejectShort, "S", "u1"), ClaimCall(TextNotApprove, "S", "u1"),
     ClaimCall(TextApproveVariant, "S", "u2"), ClaimCall(TextApprove, "T", "u3")}
ClaimSources == {"S", "T", "U"}

\* TemporalFactChecker.__init__ with no data/fact_timeline.json on disk
InitTimeline ==
    /\ timeline_claims = <<>>
    /\ timeline_sources = <<>>
    /\ disk_timeline = NoFile
    /\ clockSetBack = FALSE

\* temporal_checker.add_claim(claim, source, article_url)
AddClaim ==
    /\ Len(timeline_claims) < MaxClaims
    /\ \E call \in ClaimPool :
       \E contradictions \in {find_contradictions(timeline_claims, timeline_sources,
                                                  call.text, call.source)} :
       \E claim_hash \in {generate_claim_hash(call.text)} :
       \E step \in {-1, 1} :
         /\ step = -1 => ~clockSetBack
         /\ clockSetBack' = (clockSetBack \/ step = -1)
         /\ now' = now + step
         /\ \E entry \in {[claim_id |-> claim_hash, claim_text |-> call.text,
                           source |-> call.source, article_url |-> call.url,
                           timestamp |-> now', verified |-> FALSE,
                           contradictions |-> contradictions]} :
              /\ timeline_claims' = Append(timeline_claims, entry)
              /\ timeline_sources' =
                   [src \in DOMAIN timeline_sources \cup {call.source} |->
                      IF src = call.source
                        THEN Append(IF src \in DOMAIN timeline_sources
                                      THEN timeline_sources[src] ELSE <<>>,
                                    [claim_id |-> entry.claim_id, timestamp |-> entry.timestamp])
                        ELSE timeline_sources[src]]
    /\ disk_timeline' = save_timeline(timeline_claims', timeline_sources')
    /\ UNCHANGED <<article, env, lastResult, flagged_news_db, inserted, verifyCalls>>
    /\ UNCHANGED graphVars
    /\ UNCHANGED cacheVars
    /\ UNCHANGED callVars
    /\ UNCHANGED aggregateVars

(***************************************************************************)
(* OfflineATIEService and ATIEService: the analysis cache.  A trust score   *)
(* is an integer number of hundredths of a point (8350 stands for 83.5).    *)
(* A text is a sequence of fragments, so that text + url is a real          *)
(* concatenation; md5 is represented by the content it digests.             *)
(* A result is a dict whose nested dicts atie_trust_score and metadata are  *)
(* objects of their own: results holds them, and a dict.copy() of a result  *)
(* refers to the same two nested objects.                                   *)
(***************************************************************************)
\* "budget passed "
BodyPlain == <<"budget passed ">>
\* "budget passed http://x"
BodyWithLink == <<"budget passed ", "http://x">>
Bodies == {BodyPlain, BodyWithLink}
SourceUrls == {Null, "http://x"}
\* media_analysis: None, or a dict with manipulation_score 0.5
NoMedia == [given |-> FALSE, manipulation_score |-> 0]
Manipulated == [given |-> TRUE, manipulation_score |-> 50]
MediaAnalyses == {NoMedia, Manipulated}

\* str(options or {}) of {'source_url': ..., 'cross_verification': ...}
str_options(source_url, enable_cross_verification) ==
    <<"{'source_url': ">>
    \o (IF source_url = Null THEN <<"None">> ELSE <<"'", source_url, "'">>)
    \o <<", 'cross_verification': ",
         IF enable_cross_verification THEN "True" ELSE "False", "}">>

\* OfflineATIEService._generate_cache_key
generate_cache_key(text, source_url, enable_cross_verification) ==
    text \o str_options(source_url, enable_cross_verification)

\* ATIEService._get_cache_key: text + (source_url or "")
get_cache_key(text, source_url) ==
    text \o (IF source_url = Null THEN <<>> ELSE <<source_url>>)

\* the analyzers on the two bodies: no keyword, exclamation mark or capital,
\* no bias word, no credible pattern; every word of two letters or more
\* matches \b[A-Z]{2,}\b under re.IGNORECASE
authenticity_score(text) == 100
bias_score(text) == 0
sensationalism_score(text) == IF text = BodyWithLink THEN 30 ELSE 20
credibility_score(text, source_url) == 50

\* round(textual_integrity_score, 2)
textual_integrity_score(text, source_url) ==
    40 * authenticity_score(text) + 25 * credibility_score(text, source_url)
      + 20 * (100 - sensationalism_score(text)) + 15 * (100 - bias_score(text))

\* round(x / 100): x is a number of ten-thousandths of a point
Round2(x) == (x + 50) \div 100

\* analyze_composite: (text_score * 0.6) + (media_score * 0.4), rounded
composite_score(text_score, media_analysis) ==
    Round2(60 * text_score + 40 * ((100 - media_analysis.manipulation_score) * 100))

\* ATIEService._calculate_atie_trust_score: the adjustments that the cross
\* verification of the claims can give
VerificationAdjustments == {-1000, 0, 1500}
ClampScore(x) == IF x < 0 THEN 0 ELSE IF x > 10000 THEN 10000 ELSE x
calculate_atie_trust_score(base_score, adjustment) == ClampScore(base_score + adjustment)

\* the result dict that a fresh analysis builds
NewResult(score) == [score |-> score, from_cache |-> FALSE]

\* a cache hit that hands the stored result back unmarked
MarkHit_unmarked(stored) == stored
\* cached_result['metadata']['from_cache'] = True
MarkHit(stored) == [stored EXCEPT !.from_cache = TRUE]

NoCall ==
    [op |-> "none", text |-> <<>>, source_url |-> Null, cross_verification |-> FALSE,
     cache_result |-> FALSE, cached_before |-> FALSE, score |-> 0, from_cache |-> FALSE,
     result |-> 0]

\* what a call handed back, as read when it returned
Returned(op, text, source_url, flag, cache_result, cached_before, ref, objects) ==
    [op |-> op, text |-> text, source_url |-> source_url, cross_verification |-> flag,
     cache_result |-> cache_result, cached_before |-> cached_before,
     score |-> objects[ref].score, from_cache |-> objects[ref].from_cache,
     result |-> ref]

NoHandler == 0

\* no score lists have been handed to the aggregation
InitAggregate ==
    /\ score_sets = <<>>
    /\ aggregated = <<>>

\* the server has started: no request has been handled yet
InitCalls ==
    /\ raisedCalls = {}
    /\ handlers = <<>>
    /\ current = NoHandler

\* OfflineATIEService.__init__ or ATIEService.__init__, the latter with or
\* without a Redis server that answers the ping
InitCache ==
    /\ cache = <<>>
    /\ redis = <<>>
    /\ results = <<>>
    /\ prevReturn = NoCall
    /\ lastReturn = NoCall
    /\ analyses = 0
    /\ cache_age = <<>>

Put(store, key, value) ==
    [k \in DOMAIN store \cup {key} |-> IF k = key THEN value ELSE store[k]]

Remove(store, key) == [k \in DOMAIN store \ {key} |-> store[k]]

\* _cache_set(key, value, expire = 3600): the time to live in seconds
expire == 3600

\* redis_client.get(key): the server answers nil for a key whose time to live
\* has run out, whether or not it has dropped the key yet
redis_has(key) == key \in DOMAIN redis /\ cache_age[key] < expire

\* OfflineATIEService.analyze_textual_integrity: the new results and cache, and
\* the position of the returned result
offline_analyze(objects, store, text, source_url, flag, cache_result) ==
    LET cache_key == generate_cache_key(text, source_url, flag)
    IN IF cache_result /\ cache_key \in DOMAIN store
         THEN [results |-> [objects EXCEPT ![store[cache_key]] = MarkHit(@)],
               cache |-> store,
               ref |-> store[cache_key]]
         ELSE [results |-> Append(objects, NewResult(textual_integrity_score(text, source_url))),
               cache |-> IF cache_result THEN Put(store, cache_key, Len(objects) + 1)
                         ELSE store,
               ref |-> Len(objects) + 1]

\* offline_atie_service.analyze_textual_integrity(text, source_url, flag, cache_result)
OfflineAnalyzeTextualIntegrity ==
    /\ service = "offline"
    /\ analyses < MaxAnalyses
    /\ analyses' = analyses + 1
    /\ \E text \in Bodies, source_url \in SourceUrls, flag \in BOOLEAN, cache_result \in BOOLEAN :
       \E out \in {offline_analyze(results, cache, text, source_url, flag, cache_result)} :
          /\ results' = out.results
          /\ cache' = out.cache
          /\ cache_age' = IF out.cache = cache THEN cache_age
                           ELSE Put(cache_age, generate_cache_key(text, source_url, flag), 0)
          /\ prevReturn' = lastReturn
          /\ lastReturn' = Returned("analyze_textual_integrity", text, source_url, flag,
                                    cache_result,
                                    generate_cache_key(text, source_url, flag) \in DOMAIN cache,
                                    out.ref, out.results)
    /\ UNCHANGED <<service, redis>>
    /\ UNCHANGED <<verifyVars, graphVars, timelineVars, callVars, aggregateVars>>

\* offline_atie_service.analyze_composite(text, media_analysis, source_url)
OfflineAnalyzeComposite ==
    /\ service = "offline"
    /\ analyses < MaxAnalyses
    /\ analyses' = analyses + 1
    /\ \E text \in Bodies, source_url \in SourceUrls, media_analysis \in MediaAnalyses :
       \E out \in {offline_analyze(results, cache, text, source_url, TRUE, TRUE)} :
       \E after \in {IF ~media_analysis.given THEN out.results
                     ELSE [out.results EXCEPT ![out.ref].score =
                              composite_score(@, media_analysis)]} :
          /\ results' = after
          /\ cache' = out.cache
          /\ cache_age' = IF out.cache = cache THEN cache_age
                           ELSE Put(cache_age, generate_cache_key(text, source_url, TRUE), 0)
          /\ prevReturn' = lastReturn
          /\ lastReturn' = Returned("analyze_composite", text, source_url, TRUE, TRUE,
                                    generate_cache_key(text, source_url, TRUE) \in DOMAIN cache,
                                    out.ref, after)
    /\ UNCHANGED <<service, redis>>
    /\ UNCHANGED <<verifyVars, graphVars, timelineVars, callVars, aggregateVars>>

\* atie_service.analyze_textual_integrity(text, source_url, flag, cache_result)
AtieAnalyzeTextualIntegrity ==
    /\ service \in {"atie_memory", "atie_redis"}
    /\ analyses < MaxAnalyses
    /\ analyses' = analyses + 1
    /\ \E text \in Bodies, source_url \in SourceUrls, flag \in BOOLEAN, cache_result \in BOOLEAN :
       \E cache_key \in {get_cache_key(text, source_url)} :
       \E cached_before \in {IF service = "atie_redis" THEN redis_has(cache_key)
                             ELSE cache_key \in DOMAIN cache} :
          /\ prevReturn' = lastReturn
          /\ IF cache_result /\ cached_before
               THEN \* _cache_get: json.loads of the stored text, or the stored dict itself
                    /\ IF service = "atie_redis"
                         THEN /\ results' = Append(results, MarkHit(redis[cache_key]))
                              /\ lastReturn' = Returned("analyze_textual_integrity", text,
                                                 source_url, flag, cache_result, cached_before,
                                                 Len(results) + 1, results')
                         ELSE /\ results' = [results EXCEPT ![cache[cache_key]] = MarkHit(@)]
                              /\ lastReturn' = Returned("analyze_textual_integrity", text,
                                                 source_url, flag, cache_result, cached_before,
                                                 cache[cache_key], results')
                    /\ UNCHANGED <<cache, redis, cache_age>>
               ELSE \E adjustment \in (IF flag THEN VerificationAdjustments ELSE {0}) :
                    \E result \in {NewResult(calculate_atie_trust_score(
                                     textual_integrity_score(text, source_url), adjustment))} :
                      /\ results' = Append(results, result)
                      /\ lastReturn' = Returned("analyze_textual_integrity", text,
                                         source_url, flag, cache_result, cached_before,
                                         Len(results) + 1, results')
                      \* _cache_set: setex(key, 3600, json.dumps(value)), or the dict itself
                      /\ redis' = IF cache_result /\ service = "atie_redis"
                                    THEN Put(redis, cache_key, result) ELSE redis
                      /\ cache' = IF cache_result /\ service = "atie_memory"
                                    THEN Put(cache, cache_key, Len(results) + 1) ELSE cache
                      /\ cache_age' = IF cache_result THEN Put(cache_age, cache_key, 0)
                                       ELSE cache_age
    /\ UNCHANGED service
    /\ UNCHANGED <<verifyVars, graphVars, timelineVars, callVars, aggregateVars>>

\* Redis drops an entry whose 3600 seconds have elapsed
RedisExpire ==
    /\ service = "atie_redis"
    /\ \E key \in DOMAIN redis :
         /\ cache_age[key] >= expire
         /\ redis' = Remove(redis, key)
         /\ cache_age' = Remove(cache_age, key)
    /\ prevReturn' = lastReturn
    /\ lastReturn' = [NoCall EXCEPT !.op = "expire"]
    /\ UNCHANGED <<service, cache, results, analyses>>
    /\ UNCHANGED <<verifyVars, graphVars, timelineVars, callVars, aggregateVars>>

\* a time to live goes by between two calls; the clock of the model
\* stops when every entry has outlived its time to live
Elapse ==
    /\ \E key \in DOMAIN cache_age : cache_age[key] < expire
    /\ cache_age' = [key \in DOMAIN cache_age |->
                        IF cache_age[key] < expire THEN cache_age[key] + expire
                        ELSE cache_age[key]]
    /\ prevReturn' = lastReturn
    /\ lastReturn' = [NoCall EXCEPT !.op = "elapse"]
    /\ UNCHANGED <<service, cache, redis, results, analyses>>
    /\ UNCHANGED <<verifyVars, graphVars, timelineVars, callVars, aggregateVars>>

(***************************************************************************)
(* SpecGraph: the citation graph under add_citation.                       *)
(***************************************************************************)
InitGraphOnly ==
    /\ article = PlainArticle
    /\ env = QuietEnv
    /\ InitVerifier
    /\ InitGraph
    /\ InitTimeline
    /\ InitCache
    /\ InitCalls
    /\ InitAggregate
    /\ service = "offline"

NextGraph == AddCitation

SpecGraph == InitGraphOnly /\ [][NextGraph]_vars

(***************************************************************************)
(* SpecTimeline: the claim timeline under add_claim.                       *)
(***************************************************************************)
InitTimelineOnly ==
    /\ article = PlainArticle
    /\ env = QuietEnv
    /\ InitVerifier
    /\ InitGraph
    /\ InitTimeline
    /\ InitCache
    /\ InitCalls
    /\ InitAggregate
    /\ service = "offline"

NextTimeline == AddClaim

SpecTimeline == InitTimelineOnly /\ [][NextTimeline]_vars

(***************************************************************************)
(* SpecVerify: verify_article on every article and every answer of the     *)
(* outside world.                                                          *)
(***************************************************************************)
InitVerify ==
    /\ article \in Articles
    /\ env \in Envs
    /\ InitVerifier
    /\ InitGraph
    /\ InitTimeline
    /\ InitCache
    /\ InitCalls
    /\ InitAggregate
    /\ service = "offline"

NextVerify == VerifyArticle

SpecVerify == InitVerify /\ [][NextVerify]_vars

(***************************************************************************)
(* SpecStore: the flagged store under a long run of insertions.            *)
(***************************************************************************)
StoreScores == {6125, 2000}

\* a flagged verification result, as verify_article hands it to the store
flagged_result(n, score, clock) ==
    [article_id |-> n, title |-> "t", url |-> "u", timestamp |-> clock,
     checks |-> [c \in {"fact_checker_status"} |-> CheckResult(30, "debunked", "")],
     overall_score |-> score, is_flagged |-> TRUE, flag_reasons |-> <<GenericReason>>]

LowScores(entries) == Cardinality({i \in 1..Len(entries) : entries[i].verification_score = 2000})

\* self._add_to_flagged_db(verification_results)
AddToFlaggedDb ==
    /\ Len(inserted) < MaxInserts
    /\ \E score \in StoreScores :
         /\ score = 2000 => LowScores(inserted) < MaxLowScores
         /\ \E vr \in {flagged_result(Len(inserted) + 1, score, now + 1)} :
              /\ flagged_news_db' = add_to_flagged_db(flagged_news_db, vr)
              /\ inserted' = Append(inserted, flagged_entry(vr))
    /\ now' = now + 1
    /\ UNCHANGED <<article, env, lastResult, verifyCalls>>
    /\ UNCHANGED graphVars
    /\ UNCHANGED timelineVars
    /\ UNCHANGED cacheVars
    /\ UNCHANGED callVars
    /\ UNCHANGED aggregateVars

InitStore ==
    /\ article = PlainArticle
    /\ env = QuietEnv
    /\ InitVerifier
    /\ InitGraph
    /\ InitTimeline
    /\ InitCache
    /\ InitCalls
    /\ InitAggregate
    /\ service = "offline"

NextStore == AddToFlaggedDb

SpecStore == InitStore /\ [][NextStore]_vars

(***************************************************************************)
(* SpecRecent: get_flagged_news on a store filled by verifications that     *)
(* finish in another order than they started.                               *)
(***************************************************************************)
RECURSIVE sorted_descending(_)
\* sorted(db, key=flagged_at, reverse=True): a stable sort, entries of the same
\* flagged_at stay in the order of the store
sorted_descending(db) ==
    IF db = <<>> THEN <<>>
    ELSE LET first == CHOOSE i \in 1..Len(db) :
                        /\ \A j \in 1..Len(db) : db[i].flagged_at >= db[j].flagged_at
                        /\ \A j \in 1..(i - 1) : db[j].flagged_at # db[i].flagged_at
         IN <<db[first]>> \o sorted_descending(SubSeq(db, 1, first - 1)
                                               \o SubSeq(db, first + 1, Len(db)))

\* the slice [:limit] of a list, for limit >= 0
FirstN(list, limit) == SubSeq(list, 1, IF limit < Len(list) THEN limit ELSE Len(list))

\* the slice of the store as it is, without the sort
get_flagged_news_oldest(db, limit) == FirstN(db, limit)

\* AdvancedNewsVerifier.get_flagged_news(limit)
get_flagged_news(db, limit) == FirstN(sorted_descending(db), limit)

\* a flagged verify_article that read the clock at a time `started` when it began
\* and reaches _add_to_flagged_db now
FlagStarted ==
    /\ Len(inserted) < MaxRecent
    /\ \E score \in StoreScores : \E started \in T0..(T0 + 2) :
       \E vr \in {flagged_result(Len(inserted) + 1, score, started)} :
          /\ flagged_news_db' = add_to_flagged_db(flagged_news_db, vr)
          /\ inserted' = Append(inserted, flagged_entry(vr))
    /\ UNCHANGED <<article, env, now, lastResult, verifyCalls>>
    /\ UNCHANGED graphVars
    /\ UNCHANGED timelineVars
    /\ UNCHANGED cacheVars
    /\ UNCHANGED callVars
    /\ UNCHANGED aggregateVars

InitRecent == InitStore

NextRecent == FlagStarted

SpecRecent == InitRecent /\ [][NextRecent]_vars

(***************************************************************************)
(* SpecOptional: verify_article on articles whose fields are given, left    *)
(* out or None, the id included.                                            *)
(***************************************************************************)
OptionalArticles ==
    [id : {"a1", Missing, Null},
     title : {"Budget session opens", Missing, Null},
     description : {"The minister announced a scheme", Missing, Null},
     source : {"OpIndia", Missing, Null},
     url : {"https://example.org/a", Missing, Null},
     image_url : {"https://example.org/i.png", Missing, Null},
     published_at : {NoDate, IsoDate(T0 - 1)}]

InitOptional ==
    /\ article \in OptionalArticles
    /\ env \in Envs
    /\ InitVerifier
    /\ InitGraph
    /\ InitTimeline
    /\ InitCache
    /\ InitCalls
    /\ InitAggregate
    /\ service = "offline"

NextOptional == VerifyArticle

SpecOptional == InitOptional /\ [][NextOptional]_vars

(***************************************************************************)
(* SpecStorage: add_citation, add_claim and calculate_trust_score with      *)
(* writes to data/ that succeed or fail.  open(path, 'w') raises OSError    *)
(* and leaves the file as it was, or json.dump raises after the file has    *)
(* been truncated; neither _save_network nor _save_timeline nor their       *)
(* callers in the two services catch the exception.                         *)
(***************************************************************************)
\* a file that was truncated and not written to its end
PartialFile == [partial |-> TRUE]

\* the file a failed write leaves behind
FailedWrite(file) == {file, PartialFile}

StorageCalls == citationCalls + Len(timeline_claims) + trustCalls

\* add_citation whose _save_network raises
AddCitationWriteFails ==
    /\ StorageCalls < MaxStorageCalls
    /\ \E c \in CitationPool :
         /\ graph_edges' = add_edge(graph_edges, c.citing, c.cited, c.url)
         /\ graph_nodes' = graph_nodes \cup {c.citing, c.cited}
         /\ trust_scores' = [n \in DOMAIN trust_scores \cup {c.citing, c.cited} |->
                               IF n \in DOMAIN trust_scores THEN trust_scores[n]
                               ELSE NeutralTrust]
         /\ citationCalls' = citationCalls + 1
    /\ disk_network' \in FailedWrite(disk_network)
    /\ raisedCalls' = raisedCalls \cup {"add_citation"}
    /\ UNCHANGED <<lastTrust, trustCalls, handlers, current>>
    /\ UNCHANGED verifyVars
    /\ UNCHANGED timelineVars
    /\ UNCHANGED cacheVars
    /\ UNCHANGED aggregateVars

\* calculate_trust_score of a known source whose _save_network raises: the
\* score is stored, no value is returned
CalculateTrustScoreWriteFails ==
    /\ StorageCalls < MaxStorageCalls
    /\ trustCalls' = trustCalls + 1
    /\ \E source \in graph_nodes :
       \E score \in {calculate_trust_score(graph_nodes, graph_edges, trust_scores, source)} :
         trust_scores' = [n \in DOMAIN trust_scores \cup {source} |->
                            IF n = source THEN score ELSE trust_scores[n]]
    /\ disk_network' \in FailedWrite(disk_network)
    /\ raisedCalls' = raisedCalls \cup {"calculate_trust_score"}
    /\ UNCHANGED <<graph_nodes, graph_edges, citationCalls, lastTrust, handlers, current>>
    /\ UNCHANGED verifyVars
    /\ UNCHANGED timelineVars
    /\ UNCHANGED cacheVars
    /\ UNCHANGED aggregateVars

\* add_claim whose _save_timeline raises
AddClaimWriteFails ==
    /\ StorageCalls < MaxStorageCalls
    /\ \E call \in ClaimPool :
       \E contradictions \in {find_contradictions(timeline_claims, timeline_sources,
                                                  call.text, call.source)} :
       \E claim_hash \in {generate_claim_hash(call.text)} :
         /\ now' = now + 1
         /\ \E entry \in {[claim_id |-> claim_hash, claim_text |-> call.text,
                           source |-> call.source, article_url |-> call.url,
                           timestamp |-> now', verified |-> FALSE,
                           contradictions |-> contradictions]} :
              /\ timeline_claims' = Append(timeline_claims, entry)
              /\ timeline_sources' =
                   [src \in DOMAIN timeline_sources \cup {call.source} |->
                      IF src = call.source
                        THEN Append(IF src \in DOMAIN timeline_sources
                                      THEN timeline_sources[src] ELSE <<>>,
                                    [claim_id |-> entry.claim_id, timestamp |-> entry.timestamp])
                        ELSE timeline_sources[src]]
    /\ disk_timeline' \in FailedWrite(disk_timeline)
    /\ raisedCalls' = raisedCalls \cup {"add_claim"}
    /\ UNCHANGED <<article, env, lastResult, flagged_news_db, inserted, verifyCalls>>
    /\ UNCHANGED <<clockSetBack, handlers, current>>
    /\ UNCHANGED graphVars
    /\ UNCHANGED cacheVars
    /\ UNCHANGED aggregateVars

InitStorage == InitGraphOnly

StorageAddCitation == StorageCalls < MaxStorageCalls /\ AddCitation

StorageAddClaim == StorageCalls < MaxStorageCalls /\ AddClaim

StorageCalculateTrustScore == StorageCalls < MaxStorageCalls /\ CalculateTrustScore

NextStorage ==
    \/ StorageAddCitation
    \/ StorageAddClaim
    \/ StorageCalculateTrustScore
    \/ AddCitationWriteFails
    \/ AddClaimWriteFails
    \/ CalculateTrustScoreWriteFails

SpecStorage == InitStorage /\ [][NextStorage]_vars

(***************************************************************************)
(* SpecAggregate: the aggregation of verify_article applied to two lists of *)
(* five check scores, the second of which has one score lowered.            *)
(***************************************************************************)
ScoreValues == {0, 30, 50, 65, 70, 100}

ScoreLists == [1..5 -> ScoreValues]

\* the lists that differ from `scores` in one lower score
Lowered(scores) ==
    UNION {{[scores EXCEPT ![i] = v] : v \in {w \in ScoreValues : w < scores[i]}} : i \in 1..5}

\* overall_score and is_flagged of verify_article for a list of scores
aggregate(scores) ==
    LET overall == weighted_sum(scores, weights, 1)
    IN [overall_score |-> overall, is_flagged |-> overall < FlagThreshold]

InitAggregateOnly ==
    /\ article = PlainArticle
    /\ env = QuietEnv
    /\ InitVerifier
    /\ InitGraph
    /\ InitTimeline
    /\ InitCache
    /\ InitCalls
    /\ service = "offline"
    /\ \E first \in ScoreLists : \E second \in Lowered(first) :
         score_sets = <<first, second>>
    /\ aggregated = <<>>

Aggregate ==
    /\ aggregated = <<>>
    /\ aggregated' = <<aggregate(score_sets[1]), aggregate(score_sets[2])>>
    /\ UNCHANGED score_sets
    /\ UNCHANGED <<verifyVars, graphVars, timelineVars, cacheVars, callVars>>

NextAggregate == Aggregate

SpecAggregate == InitAggregateOnly /\ [][NextAggregate]_vars

(***************************************************************************)
(* SpecLoop: the add-citation and enhanced-verify endpoints under requests  *)
(* that arrive together.  The endpoints are coroutines of one event loop;   *)
(* a handler keeps the loop until it awaits or returns.  add_citation and   *)
(* add_claim are plain calls without an await: the change in memory, the    *)
(* node_link_data snapshot and the json.dump are steps of one handler.      *)
(***************************************************************************)
\* the places of a handler at which it awaits and the loop may run another one
await_points_write == {"write"}

await_points == {}

RequestCitations ==
    {Citation("A", "B", "u1"), Citation("B", "A", "u1"), Citation("A", "B", "u2"),
     Citation("C", "D", "u1")}

RequestClaims == {ClaimCall(TextApprove, "S", "u1"), ClaimCall(TextReject, "S", "u2"),
                  ClaimCall(TextApprove, "T", "u3")}

Handler(op, call, pc, data) == [op |-> op, call |-> call, pc |-> pc, data |-> data]

\* the loop is free to start or resume a handler other than the current one
LoopFree == IF current = NoHandler THEN TRUE ELSE handlers[current].pc \in await_points

\* handler h may take its next step
Runnable(h) == current = h \/ LoopFree

\* POST /add-citation: the handler starts and add_citation changes the graph
\* and the trust scores in memory
BeginAddCitation ==
    /\ Len(handlers) < MaxRequests
    /\ LoopFree
    /\ \E c \in RequestCitations :
         /\ graph_edges' = add_edge(graph_edges, c.citing, c.cited, c.url)
         /\ graph_nodes' = graph_nodes \cup {c.citing, c.cited}
         /\ trust_scores' = [n \in DOMAIN trust_scores \cup {c.citing, c.cited} |->
                               IF n \in DOMAIN trust_scores THEN trust_scores[n]
                               ELSE NeutralTrust]
         /\ handlers' = Append(handlers, Handler("add_citation", c, "save", NoFile))
    /\ current' = Len(handlers) + 1
    /\ citationCalls' = citationCalls + 1
    /\ UNCHANGED <<disk_network, lastTrust, trustCalls, raisedCalls>>
    /\ UNCHANGED <<verifyVars, timelineVars, cacheVars, aggregateVars>>

\* _save_network: data = {"graph": nx.node_link_data(...), "trust_scores": ...}
SnapshotNetwork ==
    /\ \E h \in 1..Len(handlers) :
         /\ handlers[h].op = "add_citation" /\ handlers[h].pc = "save"
         /\ Runnable(h)
         /\ handlers' = [handlers EXCEPT ![h].pc = "write",
                                         ![h].data = save_network(graph_nodes, graph_edges,
                                                                  trust_scores)]
         /\ current' = h
    /\ UNCHANGED raisedCalls
    /\ UNCHANGED <<verifyVars, graphVars, timelineVars, cacheVars, aggregateVars>>

\* _save_network: json.dump(data, f); add_citation and the handler return
WriteNetwork ==
    /\ \E h \in 1..Len(handlers) :
         /\ handlers[h].op = "add_citation" /\ handlers[h].pc = "write"
         /\ Runnable(h)
         /\ disk_network' = handlers[h].data
         /\ handlers' = [handlers EXCEPT ![h].pc = "done"]
    /\ current' = NoHandler
    /\ UNCHANGED <<graph_nodes, graph_edges, trust_scores, citationCalls, lastTrust,
                   trustCalls, raisedCalls>>
    /\ UNCHANGED <<verifyVars, timelineVars, cacheVars, aggregateVars>>

\* POST /enhanced-verify: the handler starts and add_claim appends the claim and
\* its reference in memory
BeginAddClaim ==
    /\ Len(handlers) < MaxRequests
    /\ LoopFree
    /\ \E call \in RequestClaims :
       \E contradictions \in {find_contradictions(timeline_claims, timeline_sources,
                                                  call.text, call.source)} :
       \E claim_hash \in {generate_claim_hash(call.text)} :
         /\ now' = now + 1
         /\ \E entry \in {[claim_id |-> claim_hash, claim_text |-> call.text,
                           source |-> call.source, article_url |-> call.url,
                           timestamp |-> now', verified |-> FALSE,
                           contradictions |-> contradictions]} :
              /\ timeline_claims' = Append(timeline_claims, entry)
              /\ timeline_sources' =
                   [src \in DOMAIN timeline_sources \cup {call.source} |->
                      IF src = call.source
                        THEN Append(IF src \in DOMAIN timeline_sources
                                      THEN timeline_sources[src] ELSE <<>>,
                                    [claim_id |-> entry.claim_id, timestamp |-> entry.timestamp])
                        ELSE timeline_sources[src]]
         /\ handlers' = Append(handlers, Handler("add_claim", call, "write", NoFile))
    /\ current' = Len(handlers) + 1
    /\ UNCHANGED <<article, env, lastResult, flagged_news_db, inserted, verifyCalls>>
    /\ UNCHANGED <<disk_timeline, clockSetBack, raisedCalls>>
    /\ UNCHANGED <<graphVars, cacheVars, aggregateVars>>

\* _save_timeline: json.dump(self.fact_timeline, f) writes the timeline as it is
\* in memory at that moment; add_claim returns
WriteTimeline ==
    /\ \E h \in 1..Len(handlers) :
         /\ handlers[h].op = "add_claim" /\ handlers[h].pc = "write"
         /\ Runnable(h)
         /\ handlers' = [handlers EXCEPT ![h].pc = "done"]
    /\ disk_timeline' = save_timeline(timeline_claims, timeline_sources)
    /\ current' = NoHandler
    /\ UNCHANGED <<timeline_claims, timeline_sources, clockSetBack, raisedCalls>>
    /\ UNCHANGED <<verifyVars, graphVars, cacheVars, aggregateVars>>

InitLoop == InitGraphOnly

NextLoop ==
    \/ BeginAddCitation
    \/ SnapshotNetwork
    \/ WriteNetwork
    \/ BeginAddClaim
    \/ WriteTimeline

SpecLoop == InitLoop /\ [][NextLoop]_vars

(***************************************************************************)
(* SpecFlagLoop: verify requests that arrive together and end up flagged.   *)
(* verify_article is a coroutine of the event loop; its one await is the    *)
(* gather of the collectors.  What follows the gather (the score, the flag, *)
(* the append, the slice and the assignment of _add_to_flagged_db) has no   *)
(* await.                                                                   *)
(***************************************************************************)
\* the places of verify_article at which the loop may run another handler; in
\* the first, a handler can also be suspended before the slice is assigned
verify_await_points_assign == {"gather", "assign"}

verify_await_points == {"gather"}

VerifyLoopFree ==
    IF current = NoHandler THEN TRUE ELSE handlers[current].pc \in verify_await_points

VerifyRunnable(h) == current = h \/ VerifyLoopFree

\* the store after k flagged verifications of an earlier time
FilledStore(k) == [i \in 1..k |-> flagged_entry(flagged_result(i, 6125, T0 - k + i))]

\* POST /verify: verify_article reads the clock and awaits the collectors
BeginVerify ==
    /\ Len(handlers) < MaxRequests
    /\ VerifyLoopFree
    /\ now' = now + 1
    /\ \E score \in StoreScores :
         handlers' = Append(handlers,
                            Handler("verify_article",
                                    flagged_result(MaxFlagged + Len(handlers) + 1, score, now'),
                                    "gather", <<>>))
    /\ current' = Len(handlers) + 1
    /\ UNCHANGED <<article, env, lastResult, flagged_news_db, inserted, verifyCalls>>
    /\ UNCHANGED raisedCalls
    /\ UNCHANGED <<graphVars, timelineVars, cacheVars, aggregateVars>>

\* the gather has returned: the result is scored and flagged, and
\* _add_to_flagged_db appends the entry
AppendFlagged ==
    /\ \E h \in 1..Len(handlers) :
         /\ handlers[h].op = "verify_article" /\ handlers[h].pc = "gather"
         /\ VerifyRunnable(h)
         /\ flagged_news_db' = Append(flagged_news_db, flagged_entry(handlers[h].call))
         /\ inserted' = Append(inserted, flagged_entry(handlers[h].call))
         /\ lastResult' = handlers[h].call
         /\ handlers' = [handlers EXCEPT ![h].pc = "slice"]
         /\ current' = h
    /\ verifyCalls' = verifyCalls + 1
    /\ UNCHANGED <<article, env, now, raisedCalls>>
    /\ UNCHANGED <<graphVars, timelineVars, cacheVars, aggregateVars>>

\* if len(self.flagged_news_db) > 100: the slice [-100:] is taken
SliceFlagged ==
    /\ \E h \in 1..Len(handlers) :
         /\ handlers[h].op = "verify_article" /\ handlers[h].pc = "slice"
         /\ VerifyRunnable(h)
         /\ IF Len(flagged_news_db) > MaxFlagged
              THEN /\ handlers' = [handlers EXCEPT
                                     ![h].pc = "assign",
                                     ![h].data = SubSeq(flagged_news_db,
                                                        Len(flagged_news_db) - MaxFlagged + 1,
                                                        Len(flagged_news_db))]
                   /\ current' = h
              ELSE /\ handlers' = [handlers EXCEPT ![h].pc = "done"]
                   /\ current' = NoHandler
    /\ UNCHANGED <<verifyVars, raisedCalls>>
    /\ UNCHANGED <<graphVars, timelineVars, cacheVars, aggregateVars>>

\* self.flagged_news_db = <the slice>; verify_article returns
AssignFlagged ==
    /\ \E h \in 1..Len(handlers) :
         /\ handlers[h].op = "verify_article" /\ handlers[h].pc = "assign"
         /\ VerifyRunnable(h)
         /\ flagged_news_db' = handlers[h].data
         /\ handlers' = [handlers EXCEPT ![h].pc = "done"]
    /\ current' = NoHandler
    /\ UNCHANGED <<article, env, now, lastResult, inserted, verifyCalls, raisedCalls>>
    /\ UNCHANGED <<graphVars, timelineVars, cacheVars, aggregateVars>>

InitFlagLoop ==
    /\ article = PlainArticle
    /\ env = QuietEnv
    /\ now = T0
    /\ lastResult = NoResult
    /\ \E k \in {MaxFlagged - 2, MaxFlagged - 1, MaxFlagged} :
         /\ flagged_news_db = FilledStore(k)
         /\ inserted = FilledStore(k)
    /\ verifyCalls = 0
    /\ InitGraph
    /\ InitTimeline
    /\ InitCache
    /\ InitCalls
    /\ InitAggregate
    /\ service = "offline"

NextFlagLoop == BeginVerify \/ AppendFlagged \/ SliceFlagged \/ AssignFlagged

SpecFlagLoop == InitFlagLoop /\ [][NextFlagLoop]_vars

(***************************************************************************)
(* SpecCache: the analysis cache of either service under analyses of the    *)
(* same and of different inputs.                                            *)
(***************************************************************************)
InitCacheOnly ==
    /\ article = PlainArticle
    /\ env = QuietEnv
    /\ InitVerifier
    /\ InitGraph
    /\ InitTimeline
    /\ InitCache
    /\ InitCalls
    /\ InitAggregate
    /\ service \in {"offline", "atie_memory", "atie_redis"}

NextCache ==
    \/ OfflineAnalyzeTextualIntegrity
    \/ OfflineAnalyzeComposite
    \/ AtieAnalyzeTextualIntegrity
    \/ RedisExpire
    \/ Elapse

SpecCache == InitCacheOnly /\ [][NextCache]_vars

(***************************************************************************)
(* SpecTrust: calculate_trust_score on graphs that add_citation builds,     *)
(* starting from an empty graph or from a stored citation_network.json.     *)
(***************************************************************************)
\* a stored graph in which A cites the five other sources and is trusted at 0.75
StoredHub ==
    [nodes |-> GraphSources,
     edges |-> {Citation("A", n, "u1") : n \in GraphSources \ {"A"}},
     trust_scores |-> [n \in GraphSources |->
                         IF n = "A" THEN 3 * (TrustScale \div 4) ELSE NeutralTrust]]

\* NetworkAnalyzer.__init__: _load_network reads the stored file if there is one
InitTrust ==
    /\ article = PlainArticle
    /\ env = QuietEnv
    /\ InitVerifier
    /\ InitTimeline
    /\ InitCache
    /\ InitCalls
    /\ InitAggregate
    /\ service = "offline"
    /\ disk_network \in {NoFile, StoredHub}
    /\ graph_nodes = IF disk_network = NoFile THEN {} ELSE disk_network.nodes
    /\ graph_edges = IF disk_network = NoFile THEN {} ELSE disk_network.edges
    /\ trust_scores = IF disk_network = NoFile THEN <<>> ELSE disk_network.trust_scores
    /\ citationCalls = 0
    /\ lastTrust = NoTrust
    /\ trustCalls = 0

TrustAddCitation == citationCalls < MaxTrustCitations /\ AddCitation

NextTrust == TrustAddCitation \/ CalculateTrustScore

SpecTrust == InitTrust /\ [][NextTrust]_vars

(***************************************************************************)
(* SpecScores: verify_article together with add_citation and                *)
(* calculate_trust_score, on articles that drive the checks to their        *)
(* highest and lowest scores and on a stored graph with three cycles.       *)
(***************************************************************************)
BestArticle ==
    [id |-> "a1", title |-> "Budget session opens",
     description |-> "The minister announced a scheme", source |-> "PTI",
     url |-> "https://example.org/a", image_url |-> "https://example.org/i.png",
     published_at |-> IsoDate(T0 - 1)]

WorstArticle ==
    [id |-> "a1", title |-> "Budget session opens", description |-> Missing,
     source |-> "OpIndia", url |-> "http://example.org/a",
     image_url |-> "https://images.pexels.com/p.jpg", published_at |-> IsoDate(T0 + 5)]

NullArticle ==
    [id |-> "a1", title |-> Null, description |-> Null, source |-> Null, url |-> Null,
     image_url |-> NotAString, published_at |-> BadDate]

\* each article with the answers of the outside world it is verified under
ScoreCases ==
    {<<BestArticle, [lookup |-> "match", site1 |-> "verified", site2 |-> "neutral"]>>,
     <<WorstArticle, [lookup |-> "nomatch", site1 |-> "debunk", site2 |-> "debunk"]>>,
     <<NullArticle, [lookup |-> "failed", site1 |-> "failed", site2 |-> "neutral"]>>}

\* data/citation_network.json of an earlier run in which A and each of B, C and D
\* cited one another
StoredEcho ==
    [nodes |-> {"A", "B", "C", "D"},
     edges |-> UNION {{Citation("A", n, "u1"), Citation(n, "A", "u1")} : n \in {"B", "C", "D"}},
     trust_scores |-> [n \in {"A", "B", "C", "D"} |-> NeutralTrust]]

InitScores ==
    /\ \E case \in ScoreCases : article = case[1] /\ env = case[2]
    /\ InitVerifier
    /\ InitTimeline
    /\ InitCache
    /\ InitCalls
    /\ InitAggregate
    /\ service = "offline"
    /\ disk_network = StoredEcho
    /\ graph_nodes = disk_network.nodes
    /\ graph_edges = disk_network.edges
    /\ trust_scores = disk_network.trust_scores
    /\ citationCalls = 0
    /\ lastTrust = NoTrust
    /\ trustCalls = 0

ScoresAddCitation == citationCalls < MaxScoreCitations /\ AddCitation

ScoresCalculateTrustScore == trustCalls < MaxScoreTrustCalls /\ CalculateTrustScore

NextScores == VerifyArticle \/ ScoresAddCitation \/ ScoresCalculateTrustScore

SpecScores == InitScores /\ [][NextScores]_vars

(***************************************************************************)
(* SpecGather: one verify_article call whose five collectors finish in any  *)
(* order before asyncio.gather returns.                                     *)
(***************************************************************************)
\* the outcomes of the collectors that have finished, and the order they did
Gathering(done, order) == [done |-> done, order |-> order]

\* verify_article starts: the clock is read and the five collectors are handed
\* to asyncio.gather
StartGather ==
    /\ handlers = <<>>
    /\ now' = now + 1
    /\ handlers' = <<Handler("verify_article", now', "gather", Gathering(<<>>, <<>>))>>
    /\ current' = 1
    /\ UNCHANGED <<article, env, lastResult, flagged_news_db, inserted, verifyCalls>>
    /\ UNCHANGED raisedCalls
    /\ UNCHANGED <<graphVars, timelineVars, cacheVars, aggregateVars>>

\* one of the collectors that are still running returns or raises
CollectorCompletes ==
    /\ handlers # <<>> /\ handlers[1].pc = "gather"
    /\ \E i \in (1..5) \ DOMAIN handlers[1].data.done :
         handlers' = [handlers EXCEPT ![1].data =
            Gathering([j \in DOMAIN handlers[1].data.done \cup {i} |->
                         gather(article, env, handlers[1].call)[j]],
                      Append(handlers[1].data.order, i))]
    /\ UNCHANGED <<verifyVars, raisedCalls, current>>
    /\ UNCHANGED <<graphVars, timelineVars, cacheVars, aggregateVars>>

\* every collector has finished: gather returns its list and verify_article
\* processes it, scores, flags and returns
ScoreGathered ==
    /\ handlers # <<>> /\ handlers[1].pc = "gather"
    /\ Len(handlers[1].data.order) = 5
    /\ \E vr \in {verify_outcomes(article,
                                  join(handlers[1].data.done, handlers[1].data.order),
                                  handlers[1].call)} :
       \E flagged \in {~IsException(vr) /\ vr.is_flagged} :
         /\ lastResult' = vr
         /\ flagged_news_db' = IF flagged THEN add_to_flagged_db(flagged_news_db, vr)
                               ELSE flagged_news_db
         /\ inserted' = IF flagged THEN Append(inserted, flagged_entry(vr))
                        ELSE inserted
    /\ verifyCalls' = verifyCalls + 1
    /\ handlers' = [handlers EXCEPT ![1].pc = "done"]
    /\ current' = NoHandler
    /\ UNCHANGED <<article, env, now, raisedCalls>>
    /\ UNCHANGED <<graphVars, timelineVars, cacheVars, aggregateVars>>

InitGather ==
    /\ \E case \in ScoreCases : article = case[1] /\ env = case[2]
    /\ InitVerifier
    /\ InitGraph
    /\ InitTimeline
    /\ InitCache
    /\ InitCalls
    /\ InitAggregate
    /\ service = "offline"

NextGather == StartGather \/ CollectorCompletes \/ ScoreGathered

SpecGather == InitGather /\ [][NextGather]_vars

(***************************************************************************)
(* Properties of verify_article.                                           *)
(***************************************************************************)
Called == verifyCalls > 0
ScoreOf(name) == lastResult.checks[name].score
StatusOf(name) == lastResult.checks[name].status

ScenarioA ==
    /\ Called
    /\ ScoreOf("official_source_match") = 95
    /\ ScoreOf("fact_checker_status") = 70
    /\ ScoreOf("source_credibility") = 80
    /\ ScoreOf("temporal_consistency") = 85
    /\ ScoreOf("image_authenticity") = 75

ScenarioB ==
    /\ Called
    /\ ScoreOf("official_source_match") = 95
    /\ ScoreOf("fact_checker_status") = 30
    /\ StatusOf("fact_checker_status") = "debunked"
    /\ ScoreOf("source_credibility") = 80
    /\ ScoreOf("temporal_consistency") = 85
    /\ ScoreOf("image_authenticity") = 75

\* C1: every verify call returns overall_score = 0.35*official + 0.25*fact_checker
\* + 0.15*credibility + 0.10*temporal + 0.15*image and is_flagged exactly when
\* overall_score < 0.65; the Scenario A scores give 0.825 and no flag.
C1_WeightedScore ==
    Called =>
      /\ lastResult.overall_score =
             35 * ScoreOf("official_source_match") + 25 * ScoreOf("fact_checker_status")
           + 15 * ScoreOf("source_credibility") + 10 * ScoreOf("temporal_consistency")
           + 15 * ScoreOf("image_authenticity")
      /\ lastResult.is_flagged <=> lastResult.overall_score < 6500
      /\ ScenarioA => lastResult.overall_score = 8250 /\ ~lastResult.is_flagged

C1_Witness == ScenarioA

DebunkReasonIn(reasons) ==
    \E i \in 1..Len(reasons) :
        /\ reasons[i].text = "Fact-checkers have flagged this as false/misleading"
        /\ reasons[i].details = lastResult.checks["fact_checker_status"].details

\* C2 as stated: the Scenario B scores give overall_score 0.625, a flag and a
\* reason that names the fact-checker debunk.
C2_Original ==
    ScenarioB =>
      /\ lastResult.overall_score = 6250
      /\ lastResult.is_flagged
      /\ DebunkReasonIn(lastResult.flag_reasons)

\* C2: the Scenario B scores give overall_score 0.725, which is not below 0.65: the
\* result is not flagged and carries no flag reason; a result that is flagged while
\* the fact-checker check is debunked does carry the fact-checker reason.
C2_ScenarioB ==
    /\ ScenarioB =>
         /\ lastResult.overall_score = 7250
         /\ ~lastResult.is_flagged
         /\ lastResult.flag_reasons = <<>>
    /\ (Called /\ lastResult.is_flagged /\ StatusOf("fact_checker_status") = "debunked")
         => DebunkReasonIn(lastResult.flag_reasons)

C2_Witness == ScenarioB

\* what goes wrong inside each collector, read off the article and the answers
HasTrigger == article.description \notin {Missing, Null}
OfficialVerified == HasTrigger /\ env.lookup = "match"
HasImage == article.image_url \notin {Missing, Null}

\* an exception leaves the collector coroutine
OfficialRaises ==
    \/ article.title = Null
    \/ article.description = Null
    \/ article.source = Null /\ ~OfficialVerified
CredibilityRaises == article.source = Null \/ article.url = Null

\* a failure the collector catches itself
LookupFails == HasTrigger /\ env.lookup = "failed"
ImageUnparsable ==
    /\ HasImage
    /\ \/ article.image_url = NotAString
       \/ article.url = Null /\ article.image_url # "https://images.pexels.com/p.jpg"
FactSiteFails == article.title = Null \/ env.site1 = "failed"
DateUnparsable == article.published_at = BadDate

Failed ==
    [n \in {check_names[i] : i \in 1..5} |->
       CASE n = "official_source_match" -> OfficialRaises \/ LookupFails
         [] n = "image_authenticity" -> ImageUnparsable
         [] n = "fact_checker_status" -> FactSiteFails
         [] n = "source_credibility" -> CredibilityRaises
         [] n = "temporal_consistency" -> DateUnparsable]

IsNeutral(c) == c.score = 50 /\ c.status = "error"

Min(a, b) == IF a < b THEN a ELSE b

LastOf(seq, k) == SubSeq(seq, Len(seq) - k + 1, Len(seq))

\* C4: after n insertions the flagged store holds exactly the last min(n, 100)
\* inserted entries in insertion order, whatever their scores; after 150 insertions
\* these are the entries 51..150.
C4_BoundedFifo ==
    /\ Len(flagged_news_db) = Min(Len(inserted), 100)
    /\ flagged_news_db = LastOf(inserted, Min(Len(inserted), 100))
    /\ Len(inserted) = 150 =>
         /\ Len(flagged_news_db) = 100
         /\ \A i \in 1..100 : flagged_news_db[i].id = 50 + i

C4_Witness ==
    /\ Len(inserted) = 150
    /\ Len(flagged_news_db) = 100
    /\ \E i \in 1..50 : inserted[i].verification_score = 2000

(***************************************************************************)
(* Properties of the citation graph.                                       *)
(***************************************************************************)
Cites(u, v) == HasEdge(graph_edges, u, v)
Adjacent(u, v) == Cites(u, v) \/ Cites(v, u)

RECURSIVE HopPairs(_)
\* the pairs of sources joined by a walk of at most d hops, each hop along an edge
\* in either direction
HopPairs(d) ==
    IF d = 0 THEN {<<n, n>> : n \in graph_nodes}
    ELSE LET prev == HopPairs(d - 1)
             adj == {p \in graph_nodes \X graph_nodes : Adjacent(p[1], p[2])}
         IN prev \cup {p \in graph_nodes \X graph_nodes :
                         \E w \in graph_nodes : <<p[1], w>> \in prev /\ <<w, p[2]>> \in adj}

RECURSIVE Warshall(_, _)
\* the pairs joined by a directed path of at least one edge
Warshall(rel, i) ==
    IF i > Len(SourceOrder) THEN rel
    ELSE LET k == SourceOrder[i]
         IN Warshall(rel \cup {<<u, v>> \in GraphSources \X GraphSources :
                                 <<u, k>> \in rel /\ <<k, v>> \in rel}, i + 1)

PathPairs == Warshall({<<e.citing, e.cited>> : e \in graph_edges}, 1)

\* C6: get_citation_network(S, depth) of an unknown source is empty; otherwise its
\* nodes are exactly the sources within depth hops of S along edges in either
\* direction and its edges exactly the graph edges between them; so after
\* add_citation(u, v, url) the network of u at every depth >= 1 has u, v and (u, v).
C6_CitationNetwork ==
    \A depth \in 1..MaxDepth : \A hops \in {HopPairs(depth)} : \A S \in GraphSources :
      \A net \in {get_citation_network(graph_nodes, graph_edges, trust_scores, S, depth)} :
      \A ids \in {{n.id : n \in net.nodes}} :
         /\ S \notin graph_nodes => net.nodes = {} /\ net.edges = {}
         /\ S \in graph_nodes =>
              /\ ids = {t \in GraphSources : <<S, t>> \in hops}
              /\ Cardinality(net.nodes) = Cardinality(ids)
              /\ net.edges = {[source |-> p[1], target |-> p[2]] :
                                p \in {q \in ids \X ids : Cites(q[1], q[2])}}
         /\ \A v \in GraphSources :
              Cites(S, v) => S \in ids /\ v \in ids /\ [source |-> S, target |-> v] \in net.edges

C6_Witness ==
    /\ Cites("A", "B")
    /\ Cites("C", "A")
    /\ Cites("C", "D")
    /\ ~Adjacent("A", "D")
    /\ "F" \notin graph_nodes

\* the cycle c turned so that it starts at its least node
Rotate(c, i) == [j \in 1..Len(c) |-> c[((i + j - 2) % Len(c)) + 1]]
Canonical(c) ==
    Rotate(c, CHOOSE i \in 1..Len(c) : \A j \in 1..Len(c) : Rank(c[i]) <= Rank(c[j]))

RECURSIVE CyclesThrough(_, _)
\* the simple cycles through S, found by walking from S back to S
CyclesThrough(path, S) ==
    LET last == path[Len(path)]
    IN (IF Cites(last, S) THEN {Canonical(path)} ELSE {})
       \cup UNION {CyclesThrough(Append(path, n), S) :
                     n \in {m \in graph_nodes : Cites(last, m)
                                                /\ \A i \in 1..Len(path) : path[i] # m}}

\* C7: detect_circular_reporting(S) says circular exactly when S lies on a directed
\* cycle (a self-citation included), and then returns exactly the simple cycles
\* through S and their number; with A -> B and B -> A the cycle A, B is among them.
C7_CircularReporting ==
    \A paths \in {PathPairs} : \A S \in GraphSources :
      LET r == detect_circular_reporting(graph_nodes, graph_edges, S)
      IN /\ r.circular <=> <<S, S>> \in paths
         /\ r.circular =>
              /\ r.cycles = CyclesThrough(<<S>>, S)
              /\ r.cycle_count = Cardinality(CyclesThrough(<<S>>, S))
         /\ (S = "A" /\ Cites("A", "B") /\ Cites("B", "A")) =>
              r.circular /\ <<"A", "B">> \in r.cycles

C7_Witness ==
    /\ Cites("A", "B") /\ Cites("B", "A")
    /\ Cites("B", "C") /\ Cites("C", "A")
    /\ Cites("A", "A")
    /\ detect_circular_reporting(graph_nodes, graph_edges, "B").cycle_count = 2

Mutual(paths, u, v) == u = v \/ (<<u, v>> \in paths /\ <<v, u>> \in paths)

OppositeMembers(text1, text2) ==
    \E p \in 1..Len(contradictory_pairs) :
        \/ Contains(text1, contradictory_pairs[p][1]) /\ Contains(text2, contradictory_pairs[p][2])
        \/ Contains(text1, contradictory_pairs[p][2]) /\ Contains(text2, contradictory_pairs[p][1])

SharedTokens(text1, text2) == Cardinality(Tokens(text1) \cap Tokens(text2))

\* the texts that are added, and the pairs of them that contradict each other
PoolTexts == {call.text : call \in ClaimPool}
Contradicting ==
    {pair \in PoolTexts \X PoolTexts :
        \E t1 \in {LowerText(pair[1])} : \E t2 \in {LowerText(pair[2])} :
            OppositeMembers(t1, t2) /\ SharedTokens(t1, t2) > 3}

\* the earlier claims that claim i contradicts, as positions of the timeline
Contradicted(i) ==
    {j \in 1..(i - 1) :
        /\ timeline_claims[j].source = timeline_claims[i].source
        /\ <<timeline_claims[i].claim_text, timeline_claims[j].claim_text>> \in Contradicting}

RECURSIVE RefsOf(_, _)
\* the references to the claims at the positions js, in timeline order from j on
RefsOf(js, j) ==
    IF j > Len(timeline_claims) THEN <<>>
    ELSE (IF j \in js
            THEN <<[claim_id |-> timeline_claims[j].claim_id,
                    original_claim |-> timeline_claims[j].claim_text,
                    timestamp |-> timeline_claims[j].timestamp,
                    article_url |-> timeline_claims[j].article_url]>>
            ELSE <<>>) \o RefsOf(js, j + 1)

HasRefTo(i, text) ==
    \E r \in 1..Len(timeline_claims[i].contradictions) :
        timeline_claims[i].contradictions[r].original_claim = text

OwnClaims(source) == {i \in 1..Len(timeline_claims) : timeline_claims[i].source = source}

Occurrences(seq, e) == Cardinality({i \in 1..Len(seq) : seq[i] = e})

\* C10: get_source_timeline(S) returns exactly the records that the add_claim
\* calls of S created, one per call, in ascending order of timestamp, and the
\* empty list for a source that never added a claim.
C10_SourceTimeline ==
    \A source \in ClaimSources :
        \E result \in {get_source_timeline(timeline_claims, timeline_sources, source)} :
            /\ Len(result) = Cardinality(OwnClaims(source))
            /\ \A i \in OwnClaims(source) :
                 Occurrences(result, timeline_claims[i])
                   = Occurrences(timeline_claims, timeline_claims[i])
            /\ \A r \in 1..Len(result) : result[r].source = source
            /\ \A r \in 1..(Len(result) - 1) : result[r].timestamp <= result[r + 1].timestamp
            /\ OwnClaims(source) = {} => result = <<>>


(***************************************************************************)
(* The analysis cache (SpecCache).                                         *)
(***************************************************************************)
\* the last two calls are analyze_textual_integrity calls with caching enabled,
\* one right after the other, on the same text, source URL and flag
SuccessiveAnalyses ==
    /\ prevReturn.op = "analyze_textual_integrity"
    /\ lastReturn.op = "analyze_textual_integrity"
    /\ prevReturn.cache_result /\ lastReturn.cache_result
    /\ prevReturn.text = lastReturn.text
    /\ prevReturn.source_url = lastReturn.source_url
    /\ prevReturn.cross_verification = lastReturn.cross_verification

C11_ParallelEdges == [][graph_edges \subseteq graph_edges']_vars


(***************************************************************************)
(* Trust scores (SpecTrust).                                               *)
(***************************************************************************)
\* the sources that cite S, and the sources that S cites
Citers(S) == {n \in graph_nodes : Cites(n, S)}
CitedBy(S) == {n \in graph_nodes : Cites(S, n)}

RECURSIVE StoredSum(_)
StoredSum(sources) ==
    IF sources = {} THEN 0
    ELSE LET n == CHOOSE x \in sources : TRUE
         IN trust_scores[n] + StoredSum(sources \ {n})

\* 10 * k times the value 0.5 + 0.3 * (mean - 0.5) - 0.2 * cycles + bonus before it
\* is clamped, where k is the number of citing sources (1 when there is none, and
\* then without the term of the mean)
TrustTimes10k(S) ==
    LET k == Cardinality(Citers(S))
        K == IF k = 0 THEN 1 ELSE k
        cycles == Cardinality(CyclesThrough(<<S>>, S))
    IN 10 * K * (TrustScale \div 2)
       + 3 * (StoredSum(Citers(S)) - k * (TrustScale \div 2))
       - 2 * K * cycles * TrustScale
       + (IF Cardinality(CitedBy(S)) > 5 THEN K * TrustScale ELSE 0)

\* the value r is the clamped value of S on the graph and the scores before the call
IsTrustOf(r, S) ==
    LET K == IF Citers(S) = {} THEN 1 ELSE Cardinality(Citers(S))
        x == TrustTimes10k(S)
    IN IF x <= 0 THEN r = 0
       ELSE IF x >= 10 * K * TrustScale THEN r = TrustScale
       ELSE 10 * K * r = x

\* C12: calculate_trust_score(S) returns 0.5 and changes nothing for a source that
\* is not in the graph; otherwise it returns 0.5 + 0.3 * (mean stored score of the
\* sources citing S - 0.5) - 0.2 * (number of simple cycles through S) + 0.1 if S
\* cites more than 5 distinct sources, clamped to [0, 1], and stores exactly that
\* value as the trust score of S, leaving every other stored score as it was.
C12_TrustScore ==
    [][trustCalls' = trustCalls + 1 =>
         \A S \in {lastTrust'.source} : \A r \in {lastTrust'.score} :
            IF S \notin graph_nodes
              THEN /\ 2 * r = TrustScale
                   /\ UNCHANGED <<graph_nodes, graph_edges, trust_scores, disk_network>>
              ELSE /\ IsTrustOf(r, S)
                   /\ UNCHANGED <<graph_nodes, graph_edges>>
                   /\ DOMAIN trust_scores' = DOMAIN trust_scores
                   /\ \A n \in DOMAIN trust_scores :
                        trust_scores'[n] = IF n = S THEN r ELSE trust_scores[n]]_vars

\* the hub A, trusted at 0.75, has cited itself as its sixth source and is scored
\* 0.5 + 0.3 * 0.25 - 0.2 + 0.1 = 0.475
C12_Witness ==
    /\ trustCalls > 0
    /\ lastTrust.source = "A"
    /\ Cardinality(CitedBy("A")) > 5
    /\ Citers("A") = {"A"}
    /\ 40 * lastTrust.score = 19 * TrustScale
    /\ trust_scores["A"] = lastTrust.score


(***************************************************************************)
(* Flag reasons (SpecVerify).                                              *)
(***************************************************************************)
CheckNames == {check_names[i] : i \in 1..5}
BelowFloor == {n \in CheckNames : ScoreOf(n) < 60}

\* the reason text that the check n can contribute
ReasonText(n) ==
    CASE n = "official_source_match" -> "Could not verify against official sources"
      [] n = "image_authenticity" -> "Using stock photography instead of original images"
      [] n = "fact_checker_status" -> "Fact-checkers have flagged this as false/misleading"
      [] n = "source_credibility" -> "Source has credibility concerns"
      [] n = "temporal_consistency" -> "Suspicious timestamp"

\* a check below the floor whose status is one that has an explanation of its own
Explained ==
    {n \in BelowFloor :
        \/ n = "official_source_match" /\ StatusOf(n) # "verified"
        \/ n = "image_authenticity" /\ StatusOf(n) = "stock_photo"
        \/ n = "fact_checker_status" /\ StatusOf(n) = "debunked"
        \/ n = "source_credibility" /\ StatusOf(n) = "unreliable"
        \/ n = "temporal_consistency" /\ StatusOf(n) \in {"future_dated", "timing_issue"}}

ReasonTexts == {lastResult.flag_reasons[i].text : i \in 1..Len(lastResult.flag_reasons)}

\* C13 as stated: a flagged result carries one explanation for every check below
\* 0.60, whatever its name and status, and the single generic reason exactly when
\* no check is below 0.60; a result that is not flagged carries no reason.
C13_Original ==
    Called =>
      /\ ~lastResult.is_flagged => lastResult.flag_reasons = <<>>
      /\ lastResult.is_flagged =>
           /\ \A n \in BelowFloor : ReasonText(n) \in ReasonTexts
           /\ lastResult.flag_reasons = <<GenericReason>> <=> BelowFloor = {}

\* C13: a flagged result carries one explanation for every check that is below 0.60
\* and has a status with an explanation of its own (official source match not
\* verified, image stock_photo, fact checker debunked, source unreliable, timestamp
\* future_dated or timing_issue), in the order of the checks, and the single
\* generic reason exactly when there is no such check; a result that is not
\* flagged carries no reason.
C13_FlagReasons ==
    Called =>
      /\ ~lastResult.is_flagged => lastResult.flag_reasons = <<>>
      /\ lastResult.is_flagged =>
           /\ lastResult.flag_reasons = <<GenericReason>> <=> Explained = {}
           /\ Explained # {} =>
                /\ Len(lastResult.flag_reasons) = Cardinality(Explained)
                /\ ReasonTexts = {ReasonText(n) : n \in Explained}
                /\ \A i, j \in 1..Len(lastResult.flag_reasons) :
                     i < j => \E a, b \in 1..5 :
                        /\ a < b
                        /\ lastResult.flag_reasons[i].text = ReasonText(check_names[a])
                        /\ lastResult.flag_reasons[j].text = ReasonText(check_names[b])

\* a flagged result whose source-credibility check failed (0.5, error) next to a
\* debunked fact check: one check below the floor is explained, the other is not
C13_Witness ==
    /\ Called
    /\ lastResult.is_flagged
    /\ "source_credibility" \in BelowFloor \ Explained
    /\ "fact_checker_status" \in Explained
    /\ Len(lastResult.flag_reasons) = Cardinality(Explained)


(***************************************************************************)
(* get_flagged_news (SpecRecent).                                          *)
(***************************************************************************)
Range(seq) == {seq[i] : i \in 1..Len(seq)}

\* C14: for every limit >= 1, get_flagged_news(limit) returns min(limit, size of
\* the store) entries of the store, no entry twice, none of the entries left out
\* was flagged later than a returned one, and the returned entries are in
\* descending order of flagged_at.
C14_MostRecent ==
    \A limit \in 1..MaxLimit :
      \A got \in {get_flagged_news(flagged_news_db, limit)} :
         /\ Len(got) = Min(limit, Len(flagged_news_db))
         /\ Range(got) \subseteq Range(flagged_news_db)
         /\ Cardinality(Range(got)) = Len(got)
         /\ \A out \in Range(flagged_news_db) \ Range(got) :
              \A in \in Range(got) : out.flagged_at <= in.flagged_at
         /\ \A i \in 1..(Len(got) - 1) : got[i].flagged_at >= got[i + 1].flagged_at

\* a store of four entries in which the entry flagged last was inserted first
C14_Witness ==
    /\ Len(flagged_news_db) = 4
    /\ \A i \in 2..4 : flagged_news_db[1].flagged_at > flagged_news_db[i].flagged_at
    /\ flagged_news_db[2].flagged_at < flagged_news_db[3].flagged_at
    /\ get_flagged_news(flagged_news_db, 2) = <<flagged_news_db[1], flagged_news_db[3]>>


(***************************************************************************)
(* check_narrative_shift (SpecTimeline).                                   *)
(***************************************************************************)
InWindow(source, days) ==
    {i \in OwnClaims(source) : timeline_claims[i].timestamp > now - days}

\* C15: check_narrative_shift(S, days) returns, for every source S, one with no
\* claims included, the fields shift_detected, details, total_claims and
\* contradictory_claims; total_claims counts the claims of S inside the window
\* of days, details has one item per such claim that carries a contradiction,
\* contradictory_claims is the number of items of details, and shift_detected
\* is true exactly when contradictory_claims > 0.
C15_NarrativeShift ==
    \A source \in ClaimSources : \A days \in 0..MaxDays :
      \A r \in {check_narrative_shift(timeline_claims, timeline_sources, source, days, now)} :
         /\ DOMAIN r = {"shift_detected", "details", "total_claims", "contradictory_claims"}
         /\ r.total_claims = Cardinality(InWindow(source, days))
         /\ Len(r.details)
              = Cardinality({i \in InWindow(source, days) :
                               timeline_claims[i].contradictions # <<>>})
         /\ r.contradictory_claims = Len(r.details)
         /\ r.shift_detected = (r.contradictory_claims > 0)


(***************************************************************************)
(* verify_article on missing and null fields (SpecOptional).               *)
(***************************************************************************)
OptionalFields == {"id", "title", "description", "source", "url", "image_url"}
Absent == {f \in OptionalFields : article[f] \in {Missing, Null}}
    \cup (IF article.published_at = NoDate THEN {"published_at"} ELSE {})

\* C16: verify_article never raises on an article whose fields are missing or
\* None: it returns a result with overall_score, is_flagged, flag_reasons and
\* an entry with score, status and details for each of the five checks.
C16_NeverRaises ==
    Called =>
      /\ ~IsException(lastResult)
      /\ {"overall_score", "is_flagged", "flag_reasons", "checks"} \subseteq DOMAIN lastResult
      /\ lastResult.overall_score \in 0..10000
      /\ lastResult.is_flagged \in BOOLEAN
      /\ lastResult.is_flagged <=> lastResult.flag_reasons # <<>>
      /\ DOMAIN lastResult.checks = CheckNames
      /\ \A n \in CheckNames :
           /\ DOMAIN lastResult.checks[n] = {"score", "status", "details"}
           /\ lastResult.checks[n].score \in 0..100

\* every field is left out or None, two collectors failed, and a result came back
C16_Witness ==
    /\ Called
    /\ Absent = OptionalFields \cup {"published_at"}
    /\ article.id = Null /\ article.title = Null /\ article.url = Null
    /\ ~IsException(lastResult)
    /\ lastResult.checks["official_source_match"].status = "error"
    /\ lastResult.checks["source_credibility"].status = "error"
    /\ lastResult.is_flagged


(***************************************************************************)
(* Failing writes (SpecStorage).                                           *)
(***************************************************************************)
WroteNetwork == disk_network' # disk_network /\ disk_network' # PartialFile
WroteTimeline == disk_timeline' # disk_timeline /\ disk_timeline' # PartialFile

\* C17: a write of the citation graph or of the claim timeline that fails during
\* add_citation, add_claim or calculate_trust_score is not raised to the
\* caller, the mutation in memory is kept, and a write that succeeds makes the
\* file equal to the state in memory.
C17_WriteFailure ==
    [][/\ raisedCalls' = raisedCalls
       /\ citationCalls' # citationCalls =>
            \E c \in CitationPool :
               graph_edges' = add_edge(graph_edges, c.citing, c.cited, c.url)
       /\ Len(timeline_claims') >= Len(timeline_claims)
       /\ WroteNetwork => disk_network' = save_network(graph_nodes', graph_edges', trust_scores')
       /\ WroteTimeline => disk_timeline' = save_timeline(timeline_claims', timeline_sources')
      ]_vars


(***************************************************************************)
(* Score ranges (SpecScores).                                              *)
(***************************************************************************)
InUnit(x, scale) == x >= 0 /\ x <= scale

\* C18: every score lies in [0, 1]: the five check scores and the overall score
\* of a verification result, failed collectors included; the score and the
\* check scores of every stored flagged entry; the stored trust score of every
\* source and the score calculate_trust_score returns.
C18_ScoresInRange ==
    /\ Called =>
         /\ InUnit(lastResult.overall_score, 10000)
         /\ \A n \in CheckNames : InUnit(lastResult.checks[n].score, 100)
    /\ \A i \in 1..Len(flagged_news_db) :
         /\ InUnit(flagged_news_db[i].verification_score, 10000)
         /\ \A n \in CheckNames : InUnit(flagged_news_db[i].checks_summary[n].score, 100)
    /\ \A n \in DOMAIN trust_scores : InUnit(trust_scores[n], TrustScale)
    /\ trustCalls > 0 => InUnit(lastTrust.score, TrustScale)

\* A lies on three cycles and its score 0.5 - 0.6 was clamped to 0; the article
\* whose collectors failed was flagged and stored
C18_Witness ==
    /\ Cardinality({n \in graph_nodes : Citation("A", n, "u1") \in graph_edges
                                         /\ Citation(n, "A", "u1") \in graph_edges}) >= 3
    /\ lastTrust = [source |-> "A", score |-> 0]
    /\ trust_scores["A"] = 0
    /\ Called
    /\ lastResult.checks["official_source_match"].status = "error"
    /\ lastResult.is_flagged
    /\ Len(flagged_news_db) = 1


(***************************************************************************)
(* Monotonic aggregation (SpecAggregate).                                  *)
(***************************************************************************)
\* C19: of two lists of five check scores that differ in one score, which is
\* lower in the second, the second has no greater overall_score, and it is
\* flagged whenever the first is.
C19_Monotonic ==
    aggregated # <<>> =>
      /\ aggregated[2].overall_score <= aggregated[1].overall_score
      /\ aggregated[1].is_flagged => aggregated[2].is_flagged

\* the temporal score of a list flagged at 0.645 is lowered from 0.65 to 0: the
\* overall score falls to 0.58 and the flag stays
C19_Witness ==
    /\ score_sets = <<<<70, 50, 65, 65, 65>>, <<70, 50, 65, 65, 0>>>>
    /\ aggregated # <<>>
    /\ aggregated[1] = [overall_score |-> 6450, is_flagged |-> TRUE]
    /\ aggregated[2] = [overall_score |-> 5800, is_flagged |-> TRUE]


(***************************************************************************)
(* Requests that arrive together (SpecLoop).                               *)
(***************************************************************************)
AllReturned == handlers # <<>> /\ \A h \in 1..Len(handlers) : handlers[h].pc = "done"

HoldsEdge(edges, c) == \E e \in edges : e.citing = c.citing /\ e.cited = c.cited

HasClaim(claims, sources, call) ==
    /\ \E i \in 1..Len(claims) :
         claims[i].claim_text = call.text /\ claims[i].source = call.source
    /\ call.source \in DOMAIN sources
    /\ \E r \in 1..Len(sources[call.source]) :
         sources[call.source][r].claim_id = generate_claim_hash(call.text)

CallsOf(op) == {h \in 1..Len(handlers) : handlers[h].op = op}

\* C20: once all the add_citation and add_claim calls issued together have
\* returned, the edge of every add_citation call is in the graph in memory and
\* in the file, every claim and its reference in the index of its source are in
\* the timeline in memory and in the file, one record and one reference per
\* call, and each file holds the state in memory.
C20_NoLostUpdate ==
    AllReturned =>
      /\ \A h \in CallsOf("add_citation") :
           /\ HoldsEdge(graph_edges, handlers[h].call)
           /\ disk_network # NoFile /\ HoldsEdge(disk_network.edges, handlers[h].call)
      /\ CallsOf("add_citation") # {} =>
           disk_network = save_network(graph_nodes, graph_edges, trust_scores)
      /\ \A h \in CallsOf("add_claim") :
           /\ HasClaim(timeline_claims, timeline_sources, handlers[h].call)
           /\ disk_timeline # NoFile
           /\ HasClaim(disk_timeline.claims, disk_timeline.sources, handlers[h].call)
      /\ Len(timeline_claims) = Cardinality(CallsOf("add_claim"))
      /\ CallsOf("add_claim") # {} =>
           disk_timeline = save_timeline(timeline_claims, timeline_sources)

\* two add_citation calls and one add_claim call have returned
C20_Witness ==
    /\ AllReturned
    /\ Cardinality(CallsOf("add_citation")) = 2
    /\ Cardinality(CallsOf("add_claim")) = 1
    /\ Cardinality(graph_edges) = 2
    /\ disk_network # NoFile /\ Cardinality(disk_network.edges) = 2


(***************************************************************************)
(* Flagged verifications that arrive together (SpecFlagLoop).              *)
(***************************************************************************)
InsertionPending == \E h \in 1..Len(handlers) : handlers[h].pc \in {"slice", "assign"}

\* C21: the append of a flagged entry and the eviction it triggers are one
\* step for every other verify call: whenever no insertion is under way, after
\* k flagged calls the store holds the last min(k, 100) inserted entries, so
\* each insertion into a full store has dropped exactly one entry; and no step
\* makes the store shorter by more than one entry.
C21_AtomicEviction ==
    /\ ~InsertionPending =>
         /\ Len(flagged_news_db) = Min(Len(inserted), MaxFlagged)
         /\ flagged_news_db = LastOf(inserted, Min(Len(inserted), MaxFlagged))
    /\ Len(flagged_news_db) <= MaxFlagged + 1
    /\ \A h \in 1..Len(handlers) :
         handlers[h].pc = "assign" => Len(handlers[h].data) = Len(flagged_news_db) - 1

\* three verify calls were under way together, all have returned, and the full
\* store has dropped one entry for each
C21_Witness ==
    /\ Len(handlers) = 3
    /\ \A h \in 1..3 : handlers[h].pc = "done"
    /\ Len(inserted) = MaxFlagged + 3
    /\ Len(flagged_news_db) = MaxFlagged
    /\ flagged_news_db[1].id = 4
    /\ handlers[3].call.timestamp < handlers[1].call.timestamp + 3
    /\ inserted[MaxFlagged + 1].id = MaxFlagged + 3


(***************************************************************************)
(* The collectors of one verify call (SpecGather).                         *)
(***************************************************************************)
\* C22: the score and the flag are computed only after all five collectors have
\* completed or failed; each collector's outcome is recorded under its own
\* check name and enters the score with its own weight; and overall_score,
\* is_flagged and flag_reasons are those of the call whatever the order in
\* which the collectors completed.
C22_Barrier ==
    /\ ~Called => lastResult = NoResult
    /\ Called =>
         /\ Len(handlers[1].data.order) = 5
         /\ \A i \in 1..5 :
              lastResult.checks[check_names[i]]
                = process_result(gather(article, env, handlers[1].call)[i])
         /\ lastResult.overall_score =
                35 * ScoreOf("official_source_match") + 15 * ScoreOf("image_authenticity")
              + 25 * ScoreOf("fact_checker_status") + 15 * ScoreOf("source_credibility")
              + 10 * ScoreOf("temporal_consistency")
         /\ lastResult = verify_result(article, env, handlers[1].call)

\* the collectors finished in the order temporal, fact-checker, official,
\* credibility, image; two of them failed; the result was flagged
C22_Witness ==
    /\ Called
    /\ handlers[1].data.order = <<5, 3, 1, 4, 2>>
    /\ StatusOf("official_source_match") = "error"
    /\ StatusOf("source_credibility") = "error"
    /\ StatusOf("image_authenticity") = "error"
    /\ lastResult.is_flagged


(***************************************************************************)
(* The cache key (SpecCache).                                              *)
(***************************************************************************)
\* the key the running service computes for the inputs of a call
KeyOf(call) ==
    IF service = "offline"
      THEN generate_cache_key(call.text, call.source_url, call.cross_verification)
      ELSE get_cache_key(call.text, call.source_url)

IsAnalysis(call) == call.op \in {"analyze_textual_integrity", "analyze_composite"}

\* the call before the last one stored its result, and the last call was served
\* from the entry under the same key
SharedEntry ==
    /\ IsAnalysis(prevReturn) /\ prevReturn.cache_result /\ ~prevReturn.cached_before
    /\ IsAnalysis(lastReturn) /\ lastReturn.cache_result /\ lastReturn.cached_before
    /\ KeyOf(prevReturn) = KeyOf(lastReturn)

\* C23: two requests that differ in the text, in the source URL or in the
\* cross-verification flag never share a cache entry: a call that is served
\* from the entry another call stored has the same three inputs as that call.
C23_CacheKey ==
    SharedEntry =>
      /\ prevReturn.text = lastReturn.text
      /\ prevReturn.source_url = lastReturn.source_url
      /\ prevReturn.cross_verification = lastReturn.cross_verification

\* the keys the cache backend of the running service holds
StoredKeys == IF service = "atie_redis" THEN DOMAIN redis ELSE DOMAIN cache

\* C24: cache entries are governed by their time to live alone, on every
\* backend: a call that may use the cache is served from it exactly when the
\* backend holds an entry for its key whose time to live has not run out, and
\* an entry leaves the backend only when its time to live has run out.
C24_TTLOnly ==
    [][/\ \A key \in StoredKeys : key \notin StoredKeys' => cache_age[key] >= expire
       /\ (analyses' # analyses /\ lastReturn'.cache_result)
            => (lastReturn'.from_cache
                  <=> (KeyOf(lastReturn') \in StoredKeys
                         /\ cache_age[KeyOf(lastReturn')] < expire))]_vars

\* detect_circular_reporting(source, max_depth = 3): the default of max_depth
default_max_depth == 3

\* C25: detect_circular_reporting(source, max_depth) reports no cycle of more
\* than max_depth sources, for the default max_depth and for every smaller one.
\* The body of the function never reads max_depth, so the result is the one of
\* detect_circular_reporting whatever max_depth is handed in.
C25_CycleCap ==
    \A source \in graph_nodes, max_depth \in 1..default_max_depth :
        LET result == detect_circular_reporting(graph_nodes, graph_edges, source)
        IN result.circular => \A cycle \in result.cycles : Len(cycle) <= max_depth

\* C26: every node that get_citation_network(source, depth) returns carries the
\* trust score that calculate_trust_score gives for it on the current graph, and
\* its in-degree and out-degree in the full graph.
C26_FreshTrust ==
    \A source \in graph_nodes, depth \in 0..MaxDepth :
        \A node \in get_citation_network(graph_nodes, graph_edges, trust_scores,
                                         source, depth).nodes :
            /\ node.trust_score
                 = calculate_trust_score(graph_nodes, graph_edges, trust_scores, node.id)
            /\ node.in_degree = Cardinality(Predecessors(graph_edges, node.id))
            /\ node.out_degree = Cardinality(Successors(graph_edges, node.id))

\* C27: every echo chamber that identify_echo_chambers reports cites only
\* itself: no citation edge leads from a member of it to a source outside it.
C27_ClosedChamber ==
    \A chamber \in identify_echo_chambers(graph_nodes, graph_edges) :
        \A edge \in graph_edges : edge.citing \in chamber => edge.cited \in chamber

\* C28: a cached analysis cannot be altered through the results handed to
\* callers: no call changes a result object that an earlier call returned, and
\* an analyze_textual_integrity call of the offline service that is served from
\* the cache returns the score that the text analysis of its input computes,
\* which is the score its entry was stored with.
C28_CacheIntegrity ==
    [][/\ \A i \in DOMAIN results : results'[i] = results[i]
       /\ (/\ service = "offline"
           /\ analyses' # analyses
           /\ lastReturn'.op = "analyze_textual_integrity"
           /\ lastReturn'.from_cache)
            => lastReturn'.score
                 = textual_integrity_score(lastReturn'.text, lastReturn'.source_url)]_vars

\* the original statement of C29: the same for every source, the sources that
\* cite themselves included
C29_Original ==
    [][trustCalls' # trustCalls =>
         /\ graph_nodes' = graph_nodes
         /\ graph_edges' = graph_edges
         /\ \A n \in DOMAIN trust_scores :
              n # lastTrust'.source => trust_scores'[n] = trust_scores[n]
         /\ lastTrust'.source \in graph_nodes =>
              calculate_trust_score(graph_nodes', graph_edges', trust_scores',
                                    lastTrust'.source) = lastTrust'.score]_vars

\* C29: calculate_trust_score is idempotent on an unchanged graph for a source
\* that does not cite itself: a calculate_trust_score(S) call leaves the nodes,
\* the edges and the stored score of every other source as they were, whatever
\* S is, and when S does not cite itself a second call for S right after it
\* would return the value that it returned and store the same score.
C29_TrustIdempotent ==
    [][trustCalls' # trustCalls =>
         /\ graph_nodes' = graph_nodes
         /\ graph_edges' = graph_edges
         /\ \A n \in DOMAIN trust_scores :
              n # lastTrust'.source => trust_scores'[n] = trust_scores[n]
         /\ (/\ lastTrust'.source \in graph_nodes
             /\ ~HasEdge(graph_edges, lastTrust'.source, lastTrust'.source)) =>
              /\ trust_scores'[lastTrust'.source] = lastTrust'.score
              /\ calculate_trust_score(graph_nodes', graph_edges', trust_scores',
                                       lastTrust'.source) = lastTrust'.score]_vars

\* B, cited by the hub A that is trusted at 0.75, has been scored 0.575, and a
\* second call on the state reached would give 0.575 again
C29_Witness ==
    /\ trustCalls > 0
    /\ lastTrust.source = "B"
    /\ Predecessors(graph_edges, "B") = {"A"}
    /\ ~HasEdge(graph_edges, "B", "B")
    /\ 40 * lastTrust.score = 23 * TrustScale
    /\ trust_scores["B"] = lastTrust.score
    /\ calculate_trust_score(graph_nodes, graph_edges, trust_scores, "B") = lastTrust.score

\* the source has made claims, all of one text up to letter case and
\* surrounding white space
RepeatsOneClaim(source) ==
    /\ Cardinality(OwnClaims(source)) > 1
    /\ \A i, j \in OwnClaims(source) :
         timeline_claims[i].claim_id = timeline_claims[j].claim_id

\* C30: repeating a claim is not a contradiction: no stored claim carries among
\* its contradictions a claim of the same text up to letter case and
\* surrounding white space, and check_narrative_shift reports no shift for a
\* source that has only repeated one claim.
C30_RepeatNotContradiction ==
    /\ \A i \in 1..Len(timeline_claims) :
         \A k \in 1..Len(timeline_claims[i].contradictions) :
            timeline_claims[i].contradictions[k].claim_id # timeline_claims[i].claim_id
    /\ \A source \in ClaimSources : \A days \in 0..MaxDays :
         RepeatsOneClaim(source) =>
            ~check_narrative_shift(timeline_claims, timeline_sources, source, days,
                                   now).shift_detected

====
